---- MODULE Spec2Model ----
(***************************************************************************)
(* MoodSpot: the RateLimiter service (daily quota counters kept in         *)
(* localStorage) and the MoodAnalysisService.analyzeMood flow guarded by   *)
(* it.                                                                     *)
(***************************************************************************)
EXTENDS Integers, Sequences, FiniteSets, TLC

VARIABLES
  quotas,       \* RateLimiter.quotas: Null or the live quota record
  initialized,  \* RateLimiter.initialized
  stored,       \* localStorage item 'moodspot_quotas'
  today,        \* the calendar day getTodayString() reports
  faults,       \* storage accesses that have thrown so far
  lastCall,     \* observation of the last RateLimiter call (ghost)
  streak,       \* consecutive incrementUsage('openai') calls since a fresh record (ghost)
  realMode,     \* MoodAnalysisService: apiKey && !isDevelopment()
  analysisCache,\* MoodAnalysisService.analysisCache: cache key -> result
  req,          \* the analyzeMood calls in flight, one per logical request
  sent,         \* classifier requests sent on the current day (ghost)
  returned,     \* first non-fallback result returned per payload (ghost)
  history,      \* mood-history store: the payloads saved by saveMoodEntry
  tidb,         \* remote mood_entries rows: the moods saved by saveMood
  remote,       \* per drawing, the saveMoodToTiDB call made for it: pending, failed or none
  hook,         \* useMoodAnalysis state and what HomeScreen did with the result
  lsm,          \* LocalStorageManager: IndexedDB stores, localStorage fallbacks, last call
  parse,        \* the last classifier response validated by callOpenAIAPI
  adv,          \* the last getAdviceForMood call: its arguments and what it computed
  adviceCache,  \* localStorage item 'mood_advice_cache'
  now,          \* Date.now()
  cached,       \* the last cacheAdvice call
  cid,          \* two mood results and the cache ids generated for them
  got,          \* the last getCachedAdviceById call
  loc,          \* LocationService: API key, memory cache, last call
  idb,          \* IndexedDB stores as the ages in days of their records, last cleanup
  tz,           \* wall clock in hours, time-zone offset, the quota record's date and resetTime
  inc           \* concurrent incrementUsage('openai') calls: where each one is, what they returned

rlVars == <<quotas, initialized, stored, today, faults, lastCall, streak>>

amVars == <<realMode, analysisCache, req, sent, returned, history, tidb, remote, hook>>

\* MoodAdviceService
advVars == <<adv, adviceCache, now, cached, cid>>

\* observations of further calls
\* the wall clock, the overlapping incrementUsage calls
auxVars == <<tz, inc>>

svcVars == <<got, loc, idb, auxVars>>

\* state of the services beside the limiter and the analysis flow
extVars == <<lsm, parse, adv, adviceCache, now, cached, cid, svcVars>>

vars == <<quotas, initialized, stored, today, faults, lastCall, streak,
          realMode, analysisCache, req, sent, returned, history, tidb, remote, hook, lsm, parse,
          adv, adviceCache, now, cached, cid, got, loc, idb, tz, inc>>

-----------------------------------------------------------------------------
(* Bounds *)

MaxDay == 2        \* days 0..MaxDay are explored; the run starts on day 1
MaxEmotions == 2     \* emotions per mood result

MaxClock == 2        \* last reading of Date.now()

MaxSpan == 1         \* days the clock runs on while cache entries age

MaxAge == 8          \* age in days of the oldest record a store can hold

MaxKeep == 2         \* largest daysToKeep handed to clearOldData

MaxOffset == 1       \* largest time-zone offset from UTC, in hours, either way

MaxHours == 3        \* hours the wall clock runs past the end of its first local day

MaxCalls == 4        \* incrementUsage calls made by the overlapping callers

MaxSamples == 51     \* distinct recommendations offered to cacheAdvice

Window == 1        \* googlePlaces/database counters are explored within
                   \* Window of 0 and within Window of their limit
MaxFaults == 1     \* storage accesses that may throw in one run
NProcs == 2        \* logically concurrent analyzeMood requests
MaxOverrun == 2    \* classifier requests explored beyond the counted usage

-----------------------------------------------------------------------------
(* RateLimiter: data *)

RATE_LIMITS == [openai |-> 50, googlePlaces |-> 250, database |-> 1000]

Services == DOMAIN RATE_LIMITS

\* Names a caller may pass: the configured services, a name that is no
\* property at all, and a name every plain object inherits from
\* Object.prototype.
InheritedNames == {"constructor"}

ServiceNames == Services \cup {"unknown"} \cup InheritedNames

Null == [tag |-> "null"]

Max(a, b) == IF a >= b THEN a ELSE b

\* the services map both createDefaultQuotas and resetDailyCounters build
ZeroServices == [s \in Services |-> [used |-> 0, limit |-> RATE_LIMITS[s]]]

CreateDefaultQuotas(day) == [tag |-> "rec", date |-> day, services |-> ZeroServices]

\* JSON.stringify(this.quotas) / JSON.parse(stored)
Stringify(q) == [tag |-> "json", value |-> q]

Parse(text) == text.value

NoItem == [tag |-> "none"]

CorruptItem == [tag |-> "corrupt"]

-----------------------------------------------------------------------------
(* RateLimiter: methods as functions of the state they read *)

\* saveQuotas without its catch: the setItem error reaches the caller
SaveQuotasUncaught(q, st, wfail) ==
  [stored |-> IF wfail THEN st ELSE Stringify(q), raised |-> wfail, failed |-> wfail]

\* saveQuotas: setItem inside try/catch; a throwing setItem leaves the item
\* as it was and the error is swallowed.
SaveQuotas(q, st, wfail) ==
  [stored |-> IF wfail THEN st ELSE Stringify(q), raised |-> FALSE, failed |-> wfail]

\* loadQuotas: getItem + JSON.parse inside try/catch.
\* a load that ignores what is stored
LoadQuotasForgetful(st, day, rfail) ==
  [quotas |-> CreateDefaultQuotas(day), outcome |-> IF rfail THEN "threw" ELSE "ok",
   raised |-> FALSE]

LoadQuotas(st, day, rfail) ==
  IF rfail THEN [quotas |-> CreateDefaultQuotas(day), outcome |-> "threw", raised |-> FALSE]
  ELSE IF st.tag = "none" THEN [quotas |-> CreateDefaultQuotas(day), outcome |-> "absent", raised |-> FALSE]
  ELSE IF st.tag = "corrupt" THEN [quotas |-> CreateDefaultQuotas(day), outcome |-> "corrupt", raised |-> FALSE]
  ELSE [quotas |-> Parse(st), outcome |-> "ok", raised |-> FALSE]

\* resetDailyCounters: a new record for today, then saveQuotas (not awaited).
ResetDailyCounters(st, day, wfail) ==
  LET q == [tag |-> "rec", date |-> day, services |-> ZeroServices]
      s == SaveQuotas(q, st, wfail)
  IN [quotas |-> q, stored |-> s.stored, reset |-> TRUE, saveFailed |-> s.failed]

\* checkAndResetDaily
\* a reset that does not look at the date of the record
CheckAndResetAlways(q, st, day, wfail) ==
  ResetDailyCounters(st, day, wfail)

CheckAndResetDaily(q, st, day, wfail) ==
  IF q.tag = "null" \/ q.date # day
  THEN ResetDailyCounters(st, day, wfail)
  ELSE [quotas |-> q, stored |-> st, reset |-> FALSE, saveFailed |-> FALSE]

\* initialize
Initialize(q, init, st, day, rfail, wfail) ==
  IF init
  THEN [quotas |-> q, stored |-> st, load |-> "skipped", fresh |-> FALSE,
        saveFailed |-> FALSE, raised |-> FALSE]
  ELSE LET l == LoadQuotas(st, day, rfail)
           r == CheckAndResetDaily(l.quotas, st, day, wfail)
       IN [quotas |-> r.quotas, stored |-> r.stored, load |-> l.outcome,
           fresh |-> (r.reset \/ l.outcome # "ok"),
           saveFailed |-> r.saveFailed, raised |-> l.raised]

\* this.quotas.services[service]: an own property, a member inherited from
\* Object.prototype (truthy, without used/limit), or undefined.
ServiceQuota(q, service) ==
  IF service \in DOMAIN q.services
  THEN [kind |-> "own", used |-> q.services[service].used, limit |-> q.services[service].limit]
  ELSE IF service \in InheritedNames
  THEN [kind |-> "inherited", used |-> -1, limit |-> -1]
  ELSE [kind |-> "undefined", used |-> -1, limit |-> -1]

\* !this.quotas.services[service]
IsMissing(sq) == sq.kind = "undefined"

\* the comparison with <= in place of <
HasQuotaInclusive(sq) == sq.kind = "own" /\ sq.used <= sq.limit

\* serviceQuota.used < serviceQuota.limit   (false when either is undefined)
HasQuota(sq) == sq.kind = "own" /\ sq.used < sq.limit

\* the comparison with > in place of >=
QuotaExhaustedStrict(sq) == sq.kind = "own" /\ sq.used > sq.limit

\* serviceQuota.used >= serviceQuota.limit  (false when either is undefined)
QuotaExhausted(sq) == sq.kind = "own" /\ sq.used >= sq.limit

\* checkQuota after initialize
CheckQuotaResult(q, service) ==
  LET sq == ServiceQuota(q, service)
  IN IF IsMissing(sq) THEN FALSE ELSE HasQuota(sq)

\* incrementUsage after initialize
IncrementUsageResult(q, st, service, wfail) ==
  LET sq == ServiceQuota(q, service)
  IN IF IsMissing(sq) \/ QuotaExhausted(sq)
     THEN [quotas |-> q, stored |-> st, ret |-> FALSE, saveFailed |-> FALSE, raised |-> FALSE]
     ELSE LET q2 == IF sq.kind = "own"
                    THEN [q EXCEPT !.services[service].used = @ + 1]
                    ELSE q      \* used += 1 lands on the inherited member
              s == SaveQuotas(q2, st, wfail)
          IN [quotas |-> q2, stored |-> s.stored, ret |-> ~s.raised,
              saveFailed |-> s.failed, raised |-> s.raised]

\* getRemainingQuota after initialize; NaN is reported as -1
GetRemainingQuotaResult(q, service) ==
  LET sq == ServiceQuota(q, service)
  IN IF IsMissing(sq) THEN 0
     ELSE IF sq.kind = "own" THEN Max(0, sq.limit - sq.used)
     ELSE -1

UsedOf(q) == [s \in Services |-> q.services[s].used]

-----------------------------------------------------------------------------
(* RateLimiter: calls *)

NoCall ==
  [op |-> "none", service |-> "none", ret |-> FALSE, remaining |-> 0,
   raised |-> FALSE, load |-> "skipped", saveFailed |-> FALSE, today |-> 0,
   date |-> 0, before |-> [s \in Services |-> 0], stale |-> FALSE,
   found |-> [s \in Services |-> 0], fresh |-> FALSE, counted |-> -1]

\* the record a call finds: the one in memory once initialized, else the
\* stored one; stale when it is dated before today
FoundStale(rfail) ==
  IF initialized THEN quotas.tag = "rec" /\ quotas.date < today
  ELSE ~rfail /\ stored.tag = "json" /\ Parse(stored).date < today

\* the counters of the record a call finds (zero when it finds none)
FoundUsed(rfail) ==
  IF initialized THEN UsedOf(quotas)
  ELSE IF ~rfail /\ stored.tag = "json" THEN UsedOf(Parse(stored))
  ELSE [s \in Services |-> 0]

\* keep the exploration of the two large counters near their ends
InWindow(q, service) ==
  service \in {"googlePlaces", "database"} =>
     \/ q.services[service].used < Window
     \/ q.services[service].used >= q.services[service].limit - Window

B2N(b) == IF b THEN 1 ELSE 0

\* getItem may throw only where it is called; faults stay within MaxFaults
ReadFaults == IF ~initialized /\ faults < MaxFaults THEN BOOLEAN ELSE {FALSE}

WriteFaults == IF faults < MaxFaults THEN BOOLEAN ELSE {FALSE}

\* the part every call records about the initialize() it awaited
Observed(op, service, i, rfail) ==
  [NoCall EXCEPT !.op = op, !.service = service, !.load = i.load,
                 !.raised = i.raised, !.saveFailed = i.saveFailed,
                 !.today = today, !.date = i.quotas.date,
                 !.before = UsedOf(i.quotas), !.stale = FoundStale(rfail),
                 !.found = FoundUsed(rfail), !.fresh = i.fresh, !.counted = streak]

InitializeCall ==
  \E rfail \in ReadFaults, wfail \in WriteFaults :
    LET i == Initialize(quotas, initialized, stored, today, rfail, wfail)
    IN /\ i.saveFailed = wfail
       /\ faults + B2N(rfail) + B2N(wfail) <= MaxFaults
       /\ faults' = faults + B2N(rfail) + B2N(wfail)
       /\ quotas' = i.quotas
       /\ stored' = i.stored
       /\ initialized' = TRUE
       /\ streak' = IF i.fresh THEN 0 ELSE -1
       /\ lastCall' = Observed("initialize", "none", i, rfail)
       /\ UNCHANGED <<today, amVars, extVars>>

CheckQuota(service) ==
  \E rfail \in ReadFaults, wfail \in WriteFaults :
    LET i == Initialize(quotas, initialized, stored, today, rfail, wfail)
    IN /\ i.saveFailed = wfail
       /\ faults + B2N(rfail) + B2N(wfail) <= MaxFaults
       /\ faults' = faults + B2N(rfail) + B2N(wfail)
       /\ quotas' = i.quotas
       /\ stored' = i.stored
       /\ initialized' = TRUE
       /\ streak' = IF i.fresh THEN 0 ELSE -1
       /\ lastCall' = [Observed("checkQuota", service, i, rfail)
                         EXCEPT !.ret = CheckQuotaResult(i.quotas, service)]
       /\ UNCHANGED <<today, amVars, extVars>>

IncrementUsage(service) ==
  \E rfail \in ReadFaults, wfail \in WriteFaults, wfail2 \in WriteFaults :
    LET i == Initialize(quotas, initialized, stored, today, rfail, wfail)
        r == IncrementUsageResult(i.quotas, i.stored, service, wfail2)
        base == IF i.fresh THEN 0 ELSE IF i.load = "skipped" THEN streak ELSE -1
    IN /\ i.saveFailed = wfail
       /\ r.saveFailed = wfail2
       /\ faults + B2N(rfail) + B2N(wfail) + B2N(wfail2) <= MaxFaults
       /\ faults' = faults + B2N(rfail) + B2N(wfail) + B2N(wfail2)
       /\ service \in Services => InWindow(i.quotas, service)
       /\ quotas' = r.quotas
       /\ stored' = r.stored
       /\ initialized' = TRUE
       /\ streak' = IF service = "openai" /\ base >= 0 /\ base <= RATE_LIMITS.openai
                    THEN base + 1 ELSE -1
       /\ lastCall' = [Observed("incrementUsage", service, i, rfail)
                         EXCEPT !.ret = r.ret,
                                !.raised = (i.raised \/ r.raised),
                                !.saveFailed = (i.saveFailed \/ r.saveFailed)]
       /\ UNCHANGED <<today, amVars, extVars>>

GetRemainingQuota(service) ==
  \E rfail \in ReadFaults, wfail \in WriteFaults :
    LET i == Initialize(quotas, initialized, stored, today, rfail, wfail)
    IN /\ i.saveFailed = wfail
       /\ faults + B2N(rfail) + B2N(wfail) <= MaxFaults
       /\ faults' = faults + B2N(rfail) + B2N(wfail)
       /\ quotas' = i.quotas
       /\ stored' = i.stored
       /\ initialized' = TRUE
       /\ streak' = IF i.fresh THEN 0 ELSE -1
       /\ lastCall' = [Observed("getRemainingQuota", service, i, rfail)
                         EXCEPT !.remaining = GetRemainingQuotaResult(i.quotas, service)]
       /\ UNCHANGED <<today, amVars, extVars>>

\* forceReset: resetDailyCounters without initialize
ForceReset ==
  \E wfail \in WriteFaults :
    LET r == ResetDailyCounters(stored, today, wfail)
    IN /\ faults' = faults + B2N(wfail)
       /\ quotas' = r.quotas
       /\ stored' = r.stored
       /\ streak' = 0
       /\ lastCall' = [NoCall EXCEPT !.op = "forceReset", !.saveFailed = r.saveFailed,
                         !.today = today, !.date = r.quotas.date,
                         !.before = UsedOf(r.quotas), !.found = UsedOf(r.quotas),
                         !.fresh = TRUE]
       /\ UNCHANGED <<initialized, today, amVars, extVars>>

\* midnight passes while the process stays alive
Tick ==
  /\ today < MaxDay
  /\ today' = today + 1
  /\ sent' = 0
  /\ UNCHANGED <<quotas, initialized, stored, faults, lastCall, streak>>
  /\ UNCHANGED <<realMode, analysisCache, req, returned, history, tidb, remote, hook, extVars>>

\* the page is reloaded: a new RateLimiter instance over the same storage
Restart ==
  /\ initialized
  /\ quotas' = Null
  /\ initialized' = FALSE
  /\ lastCall' = NoCall
  /\ UNCHANGED <<stored, today, faults, streak, amVars, extVars>>

-----------------------------------------------------------------------------
(* MoodAnalysisService: data *)

Procs == 1..NProcs

Min(a, b) == IF a <= b THEN a ELSE b

Abs(a) == IF a < 0 THEN -a ELSE a

\* drawing payloads (dataUrl) as sequences of char codes; <<65, 96>> and
\* <<66, 65>> are two payloads with the same cache key
Images == { <<65>>, <<65, 96>>, <<66, 65>> }

\* what a caller passes as exportData
ExportInputs ==
  { [kind |-> "null", dataUrl |-> <<>>], [kind |-> "object", dataUrl |-> <<>>] }
  \cup { [kind |-> "object", dataUrl |-> i] : i \in Images }

\* !exportData || !exportData.dataUrl
IsInvalidInput(e) == e.kind = "null" \/ Len(e.dataUrl) = 0

\* bitwise exclusive or of two non-negative integers
RECURSIVE Xor(_, _)
Xor(a, b) ==
  IF a = 0 THEN b
  ELSE IF b = 0 THEN a
  ELSE 2 * Xor(a \div 2, b \div 2) + ((a + b) % 2)

\* the sampling loop of generateCacheKey; the payloads above are short
\* enough that the 32-bit wrap of (hash << 5) - hash + char never occurs
RECURSIVE HashFrom(_, _, _, _)
HashFrom(data, i, step, hash) ==
  IF i > Len(data) THEN hash
  ELSE HashFrom(data, i + step, step, (hash * 32 - hash) + data[i])

GenerateCacheKey(data) ==
  LET sampleSize == Min(1000, Len(data))
      step == Len(data) \div sampleSize
  IN Abs(Xor(HashFrom(data, 1, step, 0), Len(data)))

\* error messages as sequences of words; String.includes on them
Includes(msg, pat) ==
  \E i \in 1..(Len(msg) - Len(pat) + 1) : SubSeq(msg, i, i + Len(pat) - 1) = pat

QuotaError == <<"Daily", "OpenAI", "quota", "exceeded">>

InvalidInputError == <<"Invalid", "drawing", "data", "provided">>

NoResult ==
  [primaryMood |-> "none", confidence |-> 0, isFallback |-> FALSE,
   isMockData |-> FALSE, error |-> <<>>]

\* generateFallbackAnalysis; confidence in hundredths
GenerateFallbackAnalysis(errorMessage) ==
  [primaryMood |-> "calm", confidence |-> 50, isFallback |-> TRUE,
   isMockData |-> FALSE, error |-> errorMessage]

\* moodDatabase of generateMockAnalysis: mood -> lowest confidence of its band
MoodDatabase ==
  [happy |-> 85, sad |-> 75, anxious |-> 78, calm |-> 82, creative |-> 87,
   energetic |-> 89, tired |-> 73, angry |-> 84, excited |-> 91,
   peaceful |-> 86, confident |-> 88, overwhelmed |-> 81, lonely |-> 77,
   frustrated |-> 85, inspired |-> 93]

\* the outcomes of moodKeys[randomIndex] that are explored
MockPicks == {"happy", "calm"}

\* generateMockAnalysis with Math.random() picking the mood
GenerateMockAnalysis(mood) ==
  [primaryMood |-> mood, confidence |-> MoodDatabase[mood], isFallback |-> FALSE,
   isMockData |-> TRUE, error |-> <<>>]

\* what the classifier endpoint can answer
UpstreamMessages ==
  { <<>>, <<"Rate", "limit", "reached">>, <<"Monthly", "quota", "exceeded">> }

Responses ==
  { [kind |-> "ok", mood |-> m, message |-> <<>>] : m \in {"happy", "sad"} }
  \cup { [kind |-> "http", mood |-> "", message |-> msg] : msg \in UpstreamMessages }
  \cup { [kind |-> k, mood |-> "", message |-> <<>>] :
           k \in {"badFormat", "notJson", "noMood", "noDescription"} }

ParseFailure(inner) ==
  <<"Failed", "to", "parse", "mood", "analysis", "response:">> \o inner

\* callOpenAIAPI once the response has arrived
CallOpenAIAPI(resp) ==
  CASE resp.kind = "http" ->
         [threw |-> TRUE, result |-> NoResult,
          error |-> <<"OpenAI", "API", "error:">> \o
                    (IF resp.message = <<>> THEN <<"Unknown", "error">> ELSE resp.message)]
    [] resp.kind = "badFormat" ->
         [threw |-> TRUE, result |-> NoResult,
          error |-> <<"Invalid", "response", "format", "from", "OpenAI", "API">>]
    [] resp.kind = "notJson" ->
         [threw |-> TRUE, result |-> NoResult,
          error |-> ParseFailure(<<"Unexpected", "token">>)]
    [] resp.kind = "noMood" ->
         [threw |-> TRUE, result |-> NoResult,
          error |-> ParseFailure(<<"Missing", "or", "invalid", "primaryMood", "field">>)]
    [] resp.kind = "noDescription" ->
         [threw |-> TRUE, result |-> NoResult,
          error |-> ParseFailure(<<"Missing", "or", "invalid", "description", "field">>)]
    [] OTHER ->
         [threw |-> FALSE, error |-> <<>>,
          result |-> [primaryMood |-> resp.mood, confidence |-> 85, isFallback |-> FALSE,
                      isMockData |-> FALSE, error |-> <<>>]]

\* the catch block without the re-throw of quota errors
CatchAll(error) ==
  [kind |-> "resolved", error |-> <<>>, result |-> GenerateFallbackAnalysis(error)]

\* the catch block of analyzeMood
Catch(error) ==
  IF Includes(error, <<"quota", "exceeded">>)
  THEN [kind |-> "rejected", error |-> error, result |-> NoResult]
  ELSE [kind |-> "resolved", error |-> <<>>, result |-> GenerateFallbackAnalysis(error)]

Resolved(result) == [kind |-> "resolved", error |-> <<>>, result |-> result]

NoOutcome == [kind |-> "none", error |-> <<>>, result |-> NoResult]

\* a lookup that never finds the key
CacheHasNever(cache, key) == FALSE

\* this.analysisCache.has(cacheKey)
CacheHas(cache, key) == key \in DOMAIN cache

\* this.analysisCache.set(cacheKey, analysisResult)
CacheSet(cache, key, result) ==
  [k \in DOMAIN cache \cup {key} |-> IF k = key THEN result ELSE cache[k]]

\* useMoodAnalysis: analysisResult is null
NoShown == [mood |-> "none", confidence |-> 0, isMockData |-> FALSE, isError |-> FALSE]

\* useState(false), useState(null); HomeScreen shows the canvas
HookIdle ==
  [isAnalyzing |-> FALSE, analysisResult |-> NoShown, view |-> "home",
   alert |-> <<>>, caught |-> <<>>]

\* analyzeDrawing up to the await: setIsAnalyzing(true), setAnalysisResult(null)
AnalyzeDrawingStart(h) ==
  [h EXCEPT !.isAnalyzing = TRUE, !.analysisResult = NoShown, !.caught = <<>>]

\* transformedResult of analyzeDrawing; confidence in hundredths
TransformResult(r) ==
  [mood |-> r.primaryMood, confidence |-> r.confidence, isMockData |-> r.isMockData,
   isError |-> FALSE]

\* fallbackResult built by the catch block of analyzeDrawing
FallbackResult ==
  [mood |-> "creative", confidence |-> 70, isMockData |-> TRUE, isError |-> FALSE]

\* handleDrawingComplete after analyzeDrawing has returned result
HandleDrawingComplete(h, result) ==
  IF result # NoShown /\ ~result.isError
  THEN [h EXCEPT !.view = "analysis"]
  ELSE [h EXCEPT !.view = "alert",
                 !.alert = <<"Analysis", "failed.", "Please", "try", "drawing", "again.">>]

\* analyzeDrawing from the settled analyzeMood promise to its return, the
\* finally block included, followed by HomeScreen's continuation
AnalyzeDrawingEnd(h, outcome) ==
  LET shown == IF outcome.kind = "resolved" /\ outcome.result.primaryMood # ""
               THEN TransformResult(outcome.result)
               ELSE FallbackResult
      caught == IF outcome.kind = "rejected" THEN outcome.error
                ELSE IF outcome.result.primaryMood = ""
                THEN <<"Invalid", "analysis", "result:", "missing", "required", "fields">>
                ELSE <<>>
  IN HandleDrawingComplete(
       [h EXCEPT !.isAnalyzing = FALSE, !.analysisResult = shown, !.caught = caught],
       shown)

IdleReq ==
  [pc |-> "idle", input |-> [kind |-> "null", dataUrl |-> <<>>], can |-> FALSE,
   result |-> NoResult, outcome |-> NoOutcome, cause |-> "none",
   sentBy |-> 0, used0 |-> 0, added |-> 0, prior |-> NoResult]

NoRemote == [state |-> "none", mood |-> <<>>]

AMIdle ==
  /\ analysisCache = << >>
  /\ req = [p \in Procs |-> IdleReq]
  /\ returned = [i \in Images |-> NoResult]
  /\ history = {}
  /\ tidb = {}
  /\ remote = [i \in Images |-> NoRemote]
  /\ hook = HookIdle

UsedOpenAI(q) == q.services["openai"].used

-----------------------------------------------------------------------------
(* MoodAnalysisService.analyzeMood, one action per stretch between awaits *)

\* entry: await rateLimiter.checkQuota('openai')
Begin(p, input) ==
  \E rfail \in ReadFaults, wfail \in WriteFaults :
    LET i == Initialize(quotas, initialized, stored, today, rfail, wfail)
    IN /\ req[p].pc = "idle"
       /\ i.saveFailed = wfail
       /\ faults + B2N(rfail) + B2N(wfail) <= MaxFaults
       /\ faults' = faults + B2N(rfail) + B2N(wfail)
       /\ quotas' = i.quotas
       /\ stored' = i.stored
       /\ initialized' = TRUE
       /\ streak' = -1
       /\ req' = [req EXCEPT ![p] =
                    [IdleReq EXCEPT !.pc = "checked", !.input = input,
                       !.can = CheckQuotaResult(i.quotas, "openai"),
                       !.used0 = UsedOpenAI(i.quotas),
                       !.prior = IF IsInvalidInput(input) THEN NoResult
                                 ELSE returned[input.dataUrl]]]
       /\ hook' = AnalyzeDrawingStart(hook)
       /\ UNCHANGED <<today, lastCall, realMode, analysisCache, sent, returned,
                      history, tidb, remote, extVars>>

\* the call settles: the promise resolves or rejects
Settle(p, outcome, cause) ==
  /\ \A q \in Procs : req[q].pc # "done"
  /\ req' = [req EXCEPT ![p].pc = "done", ![p].outcome = outcome, ![p].cause = cause,
               ![p].result = NoResult]
  /\ returned' =
       IF /\ outcome.kind = "resolved"
          /\ ~outcome.result.isFallback
          /\ ~IsInvalidInput(req[p].input)
          /\ returned[req[p].input.dataUrl] = NoResult
       THEN [returned EXCEPT ![req[p].input.dataUrl] = outcome.result]
       ELSE returned

\* the usage the live record counts for today
CountedToday == IF quotas.date = today THEN UsedOpenAI(quotas) ELSE 0

\* after getAllQuotas: quota verdict, input validation, cache lookup, and
\* either the classifier request or the mock analysis
Decide(p) ==
  LET r == req[p]
      key == GenerateCacheKey(r.input.dataUrl)
  IN /\ r.pc = "checked"
     /\ IF ~r.can
        THEN /\ Settle(p, Catch(QuotaError), "denied")
             /\ UNCHANGED <<analysisCache, sent>>
        ELSE IF IsInvalidInput(r.input)
        THEN /\ Settle(p, Catch(InvalidInputError), "invalid")
             /\ UNCHANGED <<analysisCache, sent>>
        ELSE IF CacheHas(analysisCache, key)
        THEN /\ Settle(p, Resolved(analysisCache[key]), "none")
             /\ UNCHANGED <<analysisCache, sent>>
        ELSE IF realMode
        THEN /\ sent < CountedToday + MaxOverrun
             /\ sent' = sent + 1
             /\ req' = [req EXCEPT ![p].pc = "waiting", ![p].sentBy = @ + 1]
             /\ UNCHANGED <<analysisCache, returned>>
        ELSE \E mood \in MockPicks :
               LET result == GenerateMockAnalysis(mood)
               IN /\ analysisCache' = CacheSet(analysisCache, key, result)
                  /\ req' = [req EXCEPT ![p].pc = "saving", ![p].result = result,
                               ![p].added = @ + B2N(~CacheHas(analysisCache, key))]
                  /\ UNCHANGED <<sent, returned>>
     /\ UNCHANGED <<rlVars, realMode, history, tidb, remote, hook, extVars>>

\* a Respond whose catch block puts the fallback it returns in the cache
RespondCachingFallback(p, resp) ==
  LET c == CallOpenAIAPI(resp)
      key == GenerateCacheKey(req[p].input.dataUrl)
  IN /\ req[p].pc = "waiting"
     /\ IF c.threw
        THEN /\ Settle(p, Catch(c.error), "upstream")
             /\ analysisCache' =
                  IF Catch(c.error).kind = "resolved"
                  THEN CacheSet(analysisCache, key, Catch(c.error).result)
                  ELSE analysisCache
        ELSE /\ req' = [req EXCEPT ![p].pc = "counting", ![p].result = c.result]
             /\ UNCHANGED <<returned, analysisCache>>
     /\ UNCHANGED <<rlVars, realMode, sent, history, tidb, remote, hook, extVars>>

\* the classifier's response arrives
Respond(p, resp) ==
  LET c == CallOpenAIAPI(resp)
  IN /\ req[p].pc = "waiting"
     /\ IF c.threw
        THEN Settle(p, Catch(c.error), "upstream")
        ELSE /\ req' = [req EXCEPT ![p].pc = "counting", ![p].result = c.result]
             /\ UNCHANGED returned
     /\ UNCHANGED <<rlVars, realMode, analysisCache, sent, history, tidb, remote, hook, extVars>>

\* await rateLimiter.incrementUsage('openai'), then metadata and cache.set
Count(p) ==
  \E wfail \in WriteFaults :
    LET r == req[p]
        key == GenerateCacheKey(r.input.dataUrl)
        u == IncrementUsageResult(quotas, stored, "openai", wfail)
    IN /\ r.pc = "counting"
       /\ u.saveFailed = wfail
       /\ faults' = faults + B2N(wfail)
       /\ quotas' = u.quotas
       /\ stored' = u.stored
       /\ streak' = -1
       /\ analysisCache' = CacheSet(analysisCache, key, r.result)
       /\ req' = [req EXCEPT ![p].pc = "saving",
                    ![p].added = @ + B2N(~CacheHas(analysisCache, key))]
       /\ UNCHANGED <<initialized, today, lastCall, realMode, sent, returned,
                      history, tidb, remote, hook, extVars>>

\* saveMoodEntry as storeAnalysisResult calls it: checkDatabaseQuota, then
\* the IndexedDB put; every error is caught by storeAnalysisResult
SaveMoodEntry(q, st, wfail, dbOk) ==
  IF ~dbOk \/ ~CheckQuotaResult(q, "database")
  THEN [quotas |-> q, stored |-> st, saved |-> FALSE, saveFailed |-> FALSE]
  ELSE LET u == IncrementUsageResult(q, st, "database", wfail)
       IN [quotas |-> u.quotas, stored |-> u.stored, saved |-> u.ret,
           saveFailed |-> u.saveFailed]

\* the caller, analyzeDrawing, takes the settled promise's value and
\* finishes; HomeScreen navigates or alerts
Return(p) ==
  /\ req[p].pc = "done"
  /\ req' = [req EXCEPT ![p] = IdleReq]
  /\ hook' = AnalyzeDrawingEnd(hook, req[p].outcome)
  /\ UNCHANGED <<rlVars, realMode, analysisCache, sent, returned, history, tidb, remote, extVars>>

\* a Store that awaits the saveMood request and lets its failure reach the
\* catch block of analyzeMood
StoreAwaitingRemote(p) ==
  \E wfail \in WriteFaults, dbFail \in WriteFaults, remoteFail \in WriteFaults :
    LET r == req[p]
        m == SaveMoodEntry(quotas, stored, wfail, ~dbFail)
    IN /\ r.pc = "saving"
       /\ m.saveFailed = wfail
       /\ faults + B2N(wfail) + B2N(dbFail) + B2N(remoteFail) <= MaxFaults
       /\ faults' = faults + B2N(wfail) + B2N(dbFail) + B2N(remoteFail)
       /\ quotas' = m.quotas
       /\ stored' = m.stored
       /\ streak' = -1
       /\ history' = IF m.saved THEN history \cup {r.input.dataUrl} ELSE history
       /\ remote' = [remote EXCEPT ![r.input.dataUrl] =
                          [state |-> IF remoteFail THEN "failed" ELSE "pending",
                           mood |-> r.result.primaryMood]]
       /\ IF remoteFail
          THEN Settle(p, Catch(<<"Failed", "to", "save", "mood">>), "upstream")
          ELSE Settle(p, Resolved(r.result), "none")
       /\ UNCHANGED <<initialized, today, lastCall, realMode, analysisCache, sent, hook,
                      tidb, extVars>>

\* await saveAnalysisCache, await storeAnalysisResult, saveMoodToTiDB (not
\* awaited), return analysisResult
Store(p) ==
  \E wfail \in WriteFaults, dbFail \in WriteFaults :
    LET r == req[p]
        m == SaveMoodEntry(quotas, stored, wfail, ~dbFail)
    IN /\ r.pc = "saving"
       /\ m.saveFailed = wfail
       /\ faults + B2N(wfail) + B2N(dbFail) <= MaxFaults
       /\ faults' = faults + B2N(wfail) + B2N(dbFail)
       /\ quotas' = m.quotas
       /\ stored' = m.stored
       /\ streak' = -1
       /\ history' = IF m.saved THEN history \cup {r.input.dataUrl} ELSE history
       /\ remote' = [remote EXCEPT ![r.input.dataUrl] =
                          [state |-> "pending", mood |-> r.result.primaryMood]]
       /\ Settle(p, Resolved(r.result), "none")
       /\ UNCHANGED <<initialized, today, lastCall, realMode, analysisCache, sent, hook,
                      tidb, extVars>>

\* the saveMood request of a saveMoodToTiDB call settles, after analyzeMood
\* has returned; saveMoodToTiDB catches what saveMood throws
SaveMoodToTiDB(i, ok) ==
  /\ remote[i].state = "pending"
  /\ ~ok => faults < MaxFaults
  /\ faults' = faults + B2N(~ok)
  /\ tidb' = IF ok THEN tidb \cup {remote[i].mood} ELSE tidb
  /\ remote' = [remote EXCEPT ![i].state = IF ok THEN "none" ELSE "failed"]
  /\ UNCHANGED <<quotas, initialized, stored, today, lastCall, streak>>
  /\ UNCHANGED <<realMode, analysisCache, req, sent, returned, history, hook, extVars>>

-----------------------------------------------------------------------------
(* LocalStorageManager *)

\* keys of sessions and of recommendation caches
StoreKeys == {"a", "b"}

NoLSCall ==
  [op |-> "none", outcome |-> "none", error |-> <<>>, from |-> "none",
   exhausted |-> FALSE, value |-> {}]

\* constructor; empty object stores and no localStorage fallbacks
LSIdle ==
  [sessions |-> {}, recs |-> {}, localSession |-> {}, localMoods |-> {},
   localRecs |-> {}, last |-> NoLSCall]

DatabaseLimitError == <<"Daily", "database", "operation", "limit", "exceeded">>

DatabaseQuotaError == <<"Database", "quota", "exceeded">>

\* checkDatabaseQuota on an initialized limiter
CheckDatabaseQuota(q, st, wfail) ==
  IF ~CheckQuotaResult(q, "database")
  THEN [quotas |-> q, stored |-> st, threw |-> TRUE, ret |-> FALSE, saveFailed |-> FALSE]
  ELSE LET u == IncrementUsageResult(q, st, "database", wfail)
       IN [quotas |-> u.quotas, stored |-> u.stored, threw |-> FALSE, ret |-> u.ret,
           saveFailed |-> u.saveFailed]

WriteOps == {"saveSession", "saveMoodEntry", "saveRecommendations"}

ReadOps == {"loadSession", "getMoodHistory", "getRecommendations"}

\* the branch taken when checkDatabaseQuota returns false
QuotaFallback(op, key, l) ==
  CASE op \in {"saveSession", "saveMoodEntry"} ->
         [lsm |-> l, outcome |-> "rejected", error |-> DatabaseQuotaError,
          from |-> "none", value |-> {}]
    [] op = "loadSession" ->
         [lsm |-> l, outcome |-> "resolved", error |-> <<>>, from |-> "local",
          value |-> l.localSession]
    [] op = "getMoodHistory" ->
         [lsm |-> l, outcome |-> "resolved", error |-> <<>>, from |-> "local",
          value |-> l.localMoods]
    [] op = "saveRecommendations" ->
         [lsm |-> [l EXCEPT !.localRecs = @ \cup {key}], outcome |-> "resolved",
          error |-> <<>>, from |-> "local", value |-> {}]
    [] OTHER ->
         [lsm |-> l, outcome |-> "resolved", error |-> <<>>, from |-> "local",
          value |-> {key} \cap l.localRecs]

\* the IndexedDB transaction of each operation
DatabaseRequest(op, key, l, hist, dbFail) ==
  IF dbFail
  THEN [lsm |-> l, hist |-> hist, outcome |-> "rejected",
        error |-> <<"request", "error">>, from |-> "none", value |-> {}]
  ELSE CASE op = "saveSession" ->
              [lsm |-> [l EXCEPT !.sessions = @ \cup {key}], hist |-> hist,
               outcome |-> "resolved", error |-> <<>>, from |-> "db", value |-> {key}]
         [] op = "loadSession" ->
              [lsm |-> l, hist |-> hist, outcome |-> "resolved", error |-> <<>>,
               from |-> "db", value |-> {key} \cap l.sessions]
         [] op = "saveMoodEntry" ->
              [lsm |-> l, hist |-> hist \cup {key}, outcome |-> "resolved",
               error |-> <<>>, from |-> "db", value |-> {key}]
         [] op = "getMoodHistory" ->
              [lsm |-> l, hist |-> hist, outcome |-> "resolved", error |-> <<>>,
               from |-> "db", value |-> hist]
         [] op = "saveRecommendations" ->
              [lsm |-> [l EXCEPT !.recs = @ \cup {key}], hist |-> hist,
               outcome |-> "resolved", error |-> <<>>, from |-> "db", value |-> {key}]
         [] OTHER ->
              [lsm |-> l, hist |-> hist, outcome |-> "resolved", error |-> <<>>,
               from |-> "db", value |-> {key} \cap l.recs]

\* one guarded LocalStorageManager operation, from its call to the
\* settlement of the promise it returns
LSCall(op, key) ==
  \E rfail \in ReadFaults, wfail \in WriteFaults, wfail2 \in WriteFaults,
     dbFail \in WriteFaults :
    LET i == Initialize(quotas, initialized, stored, today, rfail, wfail)
        c == CheckDatabaseQuota(i.quotas, i.stored, wfail2)
        f == QuotaFallback(op, key, lsm)
        d == DatabaseRequest(op, key, lsm, history, dbFail)
        obs == [NoLSCall EXCEPT !.op = op,
                  !.exhausted = QuotaExhausted(ServiceQuota(i.quotas, "database"))]
    IN /\ i.saveFailed = wfail
       /\ c.saveFailed = wfail2
       /\ dbFail => (~c.threw /\ c.ret)
       /\ faults + B2N(rfail) + B2N(wfail) + B2N(wfail2) + B2N(dbFail) <= MaxFaults
       /\ faults' = faults + B2N(rfail) + B2N(wfail) + B2N(wfail2) + B2N(dbFail)
       /\ InWindow(i.quotas, "database")
       /\ quotas' = c.quotas
       /\ stored' = c.stored
       /\ initialized' = TRUE
       /\ streak' = -1
       /\ IF c.threw
          THEN /\ lsm' = [lsm EXCEPT !.last =
                            [obs EXCEPT !.outcome = "rejected", !.error = DatabaseLimitError]]
               /\ UNCHANGED history
          ELSE IF ~c.ret
          THEN /\ lsm' = [f.lsm EXCEPT !.last =
                            [obs EXCEPT !.outcome = f.outcome, !.error = f.error,
                                        !.from = f.from, !.value = f.value]]
               /\ UNCHANGED history
          ELSE /\ lsm' = [d.lsm EXCEPT !.last =
                            [obs EXCEPT !.outcome = d.outcome, !.error = d.error,
                                        !.from = d.from, !.value = d.value]]
               /\ history' = d.hist
       /\ UNCHANGED <<today, lastCall, realMode, analysisCache, req, sent, returned,
                      tidb, remote, hook, parse, advVars, svcVars>>

SaveSession(key) ==
  /\ key \in StoreKeys
  /\ LSCall("saveSession", key)

LoadSession(key) ==
  /\ key \in StoreKeys
  /\ LSCall("loadSession", key)

SaveMoodEntryCall(payload) ==
  /\ payload \in Images
  /\ LSCall("saveMoodEntry", payload)

\* getMoodHistory(limit = 10); the stores hold fewer than 10 entries
GetMoodHistory ==
  /\ Cardinality(history) < 10
  /\ LSCall("getMoodHistory", "a")

SaveRecommendations(key) ==
  /\ key \in StoreKeys
  /\ LSCall("saveRecommendations", key)

GetRecommendations(key) ==
  /\ key \in StoreKeys
  /\ LSCall("getRecommendations", key)

\* cacheImportantData(sessionData, moodHistory)
CacheImportantData(key) ==
  /\ lsm' = [lsm EXCEPT !.localSession = {key}, !.localMoods = history,
                        !.last = NoLSCall]
  /\ UNCHANGED <<rlVars, realMode, analysisCache, req, sent, returned, history,
                 tidb, remote, hook, parse, advVars, svcVars>>

-----------------------------------------------------------------------------
(* LocationService.searchNearbyBusinesses. A cache key stands for a location
   and a category list; a result is the list of the names it holds. *)

\* getGenericRecommendations
GenericRecommendations == <<"Local Coffee Shop", "Community Park", "Local Restaurant">>

\* what the Places API finds for a key
PlacesResults(key) == <<key>>

ApiKeyError == <<"Google", "Places", "API", "key", "not", "configured">>

NoSearch ==
  [op |-> "none", key |-> "none", exhausted |-> FALSE, hadKey |-> FALSE, requests |-> 0,
   outcome |-> "none", error |-> <<>>, from |-> "none", value |-> <<>>]

\* constructor, with or without VITE_GOOGLE_PLACES_API_KEY
LocIdle ==
  [apiKey |-> TRUE, memo |-> [k \in StoreKeys |-> "none"], last |-> NoSearch]

\* !x for the value a call returned: the promise of an async method is an
\* object, and the negation of an object is false
JsNot(v) == IF v.tag = "promise" THEN FALSE ELSE ~v.value

\* rateLimiter.checkQuota('googlePlaces') as searchNearbyBusinesses receives it
CheckQuotaReturned(q) == [tag |-> "promise", value |-> CheckQuotaResult(q, "googlePlaces")]

\* storageManager.getRecommendations(key) on an initialized limiter
GetRecommendationsResult(q, st, l, key) ==
  LET c == CheckDatabaseQuota(q, st, FALSE)
      f == QuotaFallback("getRecommendations", key, l)
      d == DatabaseRequest("getRecommendations", key, l, {}, FALSE)
  IN [quotas |-> c.quotas, stored |-> c.stored, threw |-> c.threw,
      value |-> IF c.threw THEN {} ELSE IF ~c.ret THEN f.value ELSE d.value]

\* getCachedRecommendations: memory, then local storage, then the generic list
GetCachedRecommendations(q, st, l, memo, key) ==
  IF memo[key] # "none"
  THEN [quotas |-> q, stored |-> st, from |-> "memory", value |-> PlacesResults(key)]
  ELSE LET g == GetRecommendationsResult(q, st, l, key)
       IN IF ~g.threw /\ g.value # {}
          THEN [quotas |-> g.quotas, stored |-> g.stored, from |-> "storage",
                value |-> PlacesResults(key)]
          ELSE [quotas |-> g.quotas, stored |-> g.stored, from |-> "generic",
                value |-> GenericRecommendations]

\* storageManager.saveRecommendations(key, ...) on an initialized limiter
SaveRecommendationsResult(q, st, l, key) ==
  LET c == CheckDatabaseQuota(q, st, FALSE)
      f == QuotaFallback("saveRecommendations", key, l)
      d == DatabaseRequest("saveRecommendations", key, l, {}, FALSE)
  IN [quotas |-> c.quotas, stored |-> c.stored, threw |-> c.threw,
      lsm |-> IF c.threw THEN l ELSE IF ~c.ret THEN f.lsm ELSE d.lsm]

\* searchNearbyBusinesses(location, moodCategories) from its call to the
\* settlement of its promise; resp is what the Places API answers
SearchNearbyBusinesses(key, resp) ==
  LET i == Initialize(quotas, initialized, stored, today, FALSE, FALSE)
      exhausted == QuotaExhausted(ServiceQuota(i.quotas, "googlePlaces"))
      obs == [NoSearch EXCEPT !.op = "searchNearbyBusinesses", !.key = key,
                              !.exhausted = exhausted, !.hadKey = loc.apiKey]
      cachedOnly == GetCachedRecommendations(i.quotas, i.stored, lsm, loc.memo, key)
      memo2 == [loc.memo EXCEPT ![key] = "fresh"]
      saved == SaveRecommendationsResult(i.quotas, i.stored, lsm, key)
      afterThrow == GetCachedRecommendations(saved.quotas, saved.stored, saved.lsm, memo2, key)
      counted == IncrementUsageResult(saved.quotas, saved.stored, "googlePlaces", FALSE)
  IN /\ key \in StoreKeys
     /\ resp \in {"ok", "error"}
     /\ InWindow(i.quotas, "googlePlaces")
     /\ InWindow(i.quotas, "database")
     /\ initialized' = TRUE
     /\ streak' = -1
     /\ IF JsNot(CheckQuotaReturned(i.quotas))
        THEN /\ quotas' = cachedOnly.quotas
             /\ stored' = cachedOnly.stored
             /\ loc' = [loc EXCEPT !.last = [obs EXCEPT !.outcome = "resolved",
                           !.from = cachedOnly.from, !.value = cachedOnly.value]]
             /\ UNCHANGED lsm
        ELSE IF ~loc.apiKey
        THEN /\ quotas' = i.quotas
             /\ stored' = i.stored
             /\ loc' = [loc EXCEPT !.last = [obs EXCEPT !.outcome = "rejected",
                           !.error = ApiKeyError]]
             /\ UNCHANGED lsm
        ELSE IF loc.memo[key] = "fresh"
        THEN /\ quotas' = i.quotas
             /\ stored' = i.stored
             /\ loc' = [loc EXCEPT !.last = [obs EXCEPT !.outcome = "resolved",
                           !.from = "memory", !.value = PlacesResults(key)]]
             /\ UNCHANGED lsm
        ELSE IF resp = "error"
        THEN /\ quotas' = cachedOnly.quotas
             /\ stored' = cachedOnly.stored
             /\ loc' = [loc EXCEPT
                           !.last = [obs EXCEPT !.requests = 1, !.outcome = "resolved",
                              !.from = cachedOnly.from, !.value = cachedOnly.value]]
             /\ UNCHANGED lsm
        ELSE IF saved.threw
        THEN /\ quotas' = afterThrow.quotas
             /\ stored' = afterThrow.stored
             /\ lsm' = saved.lsm
             /\ loc' = [loc EXCEPT !.memo = memo2,
                           !.last = [obs EXCEPT !.requests = 1, !.outcome = "resolved",
                              !.from = afterThrow.from, !.value = afterThrow.value]]
        ELSE /\ quotas' = counted.quotas
             /\ stored' = counted.stored
             /\ lsm' = saved.lsm
             /\ loc' = [loc EXCEPT !.memo = memo2,
                           !.last = [obs EXCEPT !.requests = 1, !.outcome = "resolved",
                              !.from = "places", !.value = PlacesResults(key)]]
     /\ UNCHANGED <<today, faults, lastCall, amVars, parse, advVars, got, idb, auxVars>>

\* an hour passes: what the memory cache holds is no longer valid for a search
HourPasses ==
  /\ \E k \in StoreKeys : loc.memo[k] = "fresh"
  /\ loc' = [loc EXCEPT !.memo = [k \in StoreKeys |-> IF @[k] = "fresh" THEN "stale" ELSE @[k]]]
  /\ UNCHANGED <<rlVars, amVars, lsm, parse, advVars, got, idb, auxVars>>

-----------------------------------------------------------------------------
(* LocalStorageManager.clearOldData. A record is the age in days of its
   timestamp (of its date, in the API usage store). *)

STORES == {"sessions", "moodHistory", "apiUsage", "userPreferences", "recommendations"}

\* the indexes createObjectStores gives each store
StoreIndexes ==
  [sessions |-> {"timestamp"},
   moodHistory |-> {"timestamp", "primaryMood"},
   apiUsage |-> {},
   userPreferences |-> {},
   recommendations |-> {"timestamp"}]

RecommendationDays == 7

NoCleanup == [op |-> "none", daysToKeep |-> 0, hadQuota |-> FALSE, outcome |-> "none",
              before |-> [n \in STORES |-> {}], after |-> [n \in STORES |-> {}]]

IdbIdle == [stores |-> [n \in STORES |-> {}], last |-> NoCleanup]

\* clearOldRecords(storeName, indexName, cutoffValue): store.index throws
\* inside the promise executor when the store has no such index; the cursor
\* over upperBound(cutoff, true) deletes the records strictly older than it
ClearOldRecords(stores, storeName, indexName, cutoffDays) ==
  IF indexName \notin StoreIndexes[storeName]
  THEN [stores |-> stores, rejected |-> TRUE]
  ELSE [stores |-> [stores EXCEPT ![storeName] = { a \in @ : ~(a > cutoffDays) }],
        rejected |-> FALSE]

\* the four awaited clearOldRecords calls of clearOldData, each one made
\* when the one before resolved
ClearStores(stores, daysToKeep) ==
  LET s1 == ClearOldRecords(stores, "sessions", "timestamp", daysToKeep)
      s2 == ClearOldRecords(s1.stores, "moodHistory", "timestamp", daysToKeep * 3)
      s3 == ClearOldRecords(s2.stores, "apiUsage", "date", daysToKeep)
      s4 == ClearOldRecords(s3.stores, "recommendations", "timestamp", RecommendationDays)
  IN IF s1.rejected THEN s1
     ELSE IF s2.rejected THEN s2
     ELSE IF s3.rejected THEN s3
     ELSE s4

\* clearOldData(daysToKeep) from its call to the settlement of its promise
ClearOldData(daysToKeep) ==
  LET i == Initialize(quotas, initialized, stored, today, FALSE, FALSE)
      c == CheckDatabaseQuota(i.quotas, i.stored, FALSE)
      r == ClearStores(idb.stores, daysToKeep)
      obs == [NoCleanup EXCEPT !.op = "clearOldData", !.daysToKeep = daysToKeep,
                !.hadQuota = ~c.threw /\ c.ret, !.before = idb.stores]
  IN /\ daysToKeep \in 1..MaxKeep
     /\ InWindow(i.quotas, "database")
     /\ initialized' = TRUE
     /\ streak' = -1
     /\ quotas' = c.quotas
     /\ stored' = c.stored
     /\ IF c.threw
        THEN idb' = [idb EXCEPT !.last = [obs EXCEPT !.outcome = "rejected",
                                                     !.after = idb.stores]]
        ELSE IF ~c.ret
        THEN idb' = [idb EXCEPT !.last = [obs EXCEPT !.outcome = "skipped",
                                                     !.after = idb.stores]]
        ELSE idb' = [stores |-> r.stores,
                     last |-> [obs EXCEPT !.after = r.stores,
                        !.outcome = IF r.rejected THEN "rejected" ELSE "completed"]]
     /\ UNCHANGED <<today, faults, lastCall, amVars, lsm, parse, advVars, got, loc, auxVars>>

\* a day passes over the records that are kept
RecordsAge ==
  /\ \A n \in STORES : \A a \in idb.stores[n] : a < MaxAge
  /\ \E n \in STORES : idb.stores[n] # {}
  /\ idb' = [idb EXCEPT !.stores = [n \in STORES |-> { a + 1 : a \in @[n] }]]
  /\ UNCHANGED <<rlVars, amVars, lsm, parse, advVars, got, loc, auxVars>>

-----------------------------------------------------------------------------
(* RateLimiter: the calendar day. Instants are hours since an epoch at UTC
   midnight; a time zone is its offset from UTC in hours. *)

HoursPerDay == 24

\* getTodayString(): the date part of toISOString(), the UTC calendar day
GetTodayString(t) == t \div HoursPerDay

\* getNextMidnight(): setDate(getDate() + 1) and setHours(0, 0, 0, 0) work
\* on local time; toISOString() gives the instant
GetNextMidnight(t, offset) ==
  ((t + offset) \div HoursPerDay + 1) * HoursPerDay - offset

NoRecord == [date |-> -1, resetTime |-> -1]

TzIdle == [t |-> HoursPerDay, offset |-> 0, record |-> NoRecord, madeAt |-> -1]

IncIdle == [pc |-> [p \in 1..NProcs |-> "idle"], calls |-> 0, base |-> -1, granted |-> 0,
            refused |-> 0]

AuxIdle ==
  /\ tz = TzIdle
  /\ inc = IncIdle

\* resetDailyCounters() as initialize() reaches it through
\* checkAndResetDaily(): a record is made when none is stored or the stored
\* date is not today's
ResetAt(t, offset, record) ==
  IF record = NoRecord \/ record.date # GetTodayString(t)
  THEN [date |-> GetTodayString(t), resetTime |-> GetNextMidnight(t, offset)]
  ELSE record

\* a page load: initialize() at the current instant
InitializeAt ==
  /\ ResetAt(tz.t, tz.offset, tz.record) # tz.record
  /\ tz' = [tz EXCEPT !.record = ResetAt(tz.t, tz.offset, tz.record), !.madeAt = tz.t]
  /\ UNCHANGED <<rlVars, amVars, lsm, parse, advVars, got, loc, idb, inc>>

\* an hour passes
HourGoes ==
  /\ tz.t < 3 * HoursPerDay + MaxHours
  /\ tz' = [tz EXCEPT !.t = @ + 1]
  /\ UNCHANGED <<rlVars, amVars, lsm, parse, advVars, got, loc, idb, inc>>

-----------------------------------------------------------------------------
(* RateLimiter.incrementUsage('openai') called by overlapping callers, one
   action per stretch between awaits; any caller that waits may be the next
   one to resume *)

\* incrementUsage is called: it calls initialize(), which returns at once
\* when initialized and otherwise runs loadQuotas up to its end
IncrementUsageCalled(p) ==
  /\ inc.pc[p] = "idle"
  /\ inc.calls < MaxCalls
  /\ IF initialized
     THEN /\ inc' = [inc EXCEPT !.pc[p] = "initialized", !.calls = @ + 1]
          /\ UNCHANGED quotas
     ELSE /\ inc' = [inc EXCEPT !.pc[p] = "loaded", !.calls = @ + 1]
          /\ quotas' = LoadQuotas(stored, today, FALSE).quotas
  /\ UNCHANGED <<initialized, stored, today, faults, lastCall, streak, amVars, lsm, parse,
                 advVars, got, loc, idb, tz>>

\* initialize() resumes after await loadQuotas(): checkAndResetDaily, then
\* initialized = true
InitializeResumes(p) ==
  LET r == CheckAndResetDaily(quotas, stored, today, FALSE)
  IN /\ inc.pc[p] = "loaded"
     /\ quotas' = r.quotas
     /\ stored' = r.stored
     /\ initialized' = TRUE
     /\ inc' = [inc EXCEPT !.pc[p] = "initialized",
                           !.base = IF @ < 0 THEN UsedOpenAI(r.quotas) ELSE @]
     /\ UNCHANGED <<today, faults, lastCall, streak, amVars, lsm, parse, advVars, got, loc,
                    idb, tz>>

\* incrementUsage resumes after await initialize(): the test against the
\* limit, used += 1 and saveQuotas up to its end
IncrementUsageResumes(p) ==
  LET r == IncrementUsageResult(quotas, stored, "openai", FALSE)
  IN /\ inc.pc[p] = "initialized"
     /\ quotas' = r.quotas
     /\ stored' = r.stored
     /\ inc' = IF r.ret THEN [inc EXCEPT !.pc[p] = "saved"]
               ELSE [inc EXCEPT !.pc[p] = "idle", !.refused = @ + 1]
     /\ UNCHANGED <<initialized, today, faults, lastCall, streak, amVars, lsm, parse,
                    advVars, got, loc, idb, tz>>

\* incrementUsage resumes after await saveQuotas() and returns true
IncrementUsageReturns(p) ==
  /\ inc.pc[p] = "saved"
  /\ inc' = [inc EXCEPT !.pc[p] = "idle", !.granted = @ + 1]
  /\ UNCHANGED <<rlVars, amVars, lsm, parse, advVars, got, loc, idb, tz>>

-----------------------------------------------------------------------------
(* MoodAnalysisService.callOpenAIAPI: validation of the parsed JSON.
   Labels are sequences of characters. *)

UpperChars ==
  << "A", "B", "C", "D", "E", "F", "G", "H", "I", "J", "K", "L", "M", "N",
     "O", "P", "Q", "R", "S", "T", "U", "V", "W", "X", "Y", "Z" >>

LowerChars ==
  << "a", "b", "c", "d", "e", "f", "g", "h", "i", "j", "k", "l", "m", "n",
     "o", "p", "q", "r", "s", "t", "u", "v", "w", "x", "y", "z" >>

ToLowerChar(c) ==
  IF \E i \in DOMAIN UpperChars : UpperChars[i] = c
  THEN LowerChars[CHOOSE i \in DOMAIN UpperChars : UpperChars[i] = c]
  ELSE c

\* String.prototype.toLowerCase
ToLowerCase(str) == [i \in DOMAIN str |-> ToLowerChar(str[i])]

\* String.prototype.trim
RECURSIVE Trim(_)
Trim(str) ==
  IF str = <<>> THEN str
  ELSE IF Head(str) = " " THEN Trim(Tail(str))
  ELSE IF str[Len(str)] = " " THEN Trim(SubSeq(str, 1, Len(str) - 1))
  ELSE str

\* validMoods, in the order of the array
ValidMoods ==
  << <<"h", "a", "p", "p", "y">>, <<"s", "a", "d">>,
     <<"a", "n", "x", "i", "o", "u", "s">>, <<"c", "a", "l", "m">>,
     <<"c", "r", "e", "a", "t", "i", "v", "e">>,
     <<"e", "n", "e", "r", "g", "e", "t", "i", "c">>,
     <<"t", "i", "r", "e", "d">>, <<"a", "n", "g", "r", "y">>,
     <<"e", "x", "c", "i", "t", "e", "d">>,
     <<"p", "e", "a", "c", "e", "f", "u", "l">>,
     <<"c", "o", "n", "f", "i", "d", "e", "n", "t">>,
     <<"o", "v", "e", "r", "w", "h", "e", "l", "m", "e", "d">>,
     <<"l", "o", "n", "e", "l", "y">>,
     <<"f", "r", "u", "s", "t", "r", "a", "t", "e", "d">>,
     <<"i", "n", "s", "p", "i", "r", "e", "d">> >>

\* moodMappings of findClosestMood as <<key, value>> pairs
MoodMappings ==
  { <<<<"j", "o", "y", "f", "u", "l">>, <<"h", "a", "p", "p", "y">>>>,
    <<<<"c", "h", "e", "e", "r", "f", "u", "l">>, <<"h", "a", "p", "p", "y">>>>,
    <<<<"e", "l", "a", "t", "e", "d">>, <<"e", "x", "c", "i", "t", "e", "d">>>>,
    <<<<"d", "e", "p", "r", "e", "s", "s", "e", "d">>, <<"s", "a", "d">>>>,
    <<<<"m", "e", "l", "a", "n", "c", "h", "o", "l", "y">>, <<"s", "a", "d">>>>,
    <<<<"w", "o", "r", "r", "i", "e", "d">>, <<"a", "n", "x", "i", "o", "u", "s">>>>,
    <<<<"n", "e", "r", "v", "o", "u", "s">>, <<"a", "n", "x", "i", "o", "u", "s">>>>,
    <<<<"s", "t", "r", "e", "s", "s", "e", "d">>, <<"o", "v", "e", "r", "w", "h", "e", "l", "m", "e", "d">>>>,
    <<<<"r", "e", "l", "a", "x", "e", "d">>, <<"c", "a", "l", "m">>>>,
    <<<<"s", "e", "r", "e", "n", "e">>, <<"p", "e", "a", "c", "e", "f", "u", "l">>>>,
    <<<<"t", "r", "a", "n", "q", "u", "i", "l">>, <<"p", "e", "a", "c", "e", "f", "u", "l">>>>,
    <<<<"a", "r", "t", "i", "s", "t", "i", "c">>, <<"c", "r", "e", "a", "t", "i", "v", "e">>>>,
    <<<<"i", "m", "a", "g", "i", "n", "a", "t", "i", "v", "e">>, <<"c", "r", "e", "a", "t", "i", "v", "e">>>>,
    <<<<"l", "i", "v", "e", "l", "y">>, <<"e", "n", "e", "r", "g", "e", "t", "i", "c">>>>,
    <<<<"v", "i", "g", "o", "r", "o", "u", "s">>, <<"e", "n", "e", "r", "g", "e", "t", "i", "c">>>>,
    <<<<"e", "x", "h", "a", "u", "s", "t", "e", "d">>, <<"t", "i", "r", "e", "d">>>>,
    <<<<"w", "e", "a", "r", "y">>, <<"t", "i", "r", "e", "d">>>>,
    <<<<"m", "a", "d">>, <<"a", "n", "g", "r", "y">>>>,
    <<<<"f", "u", "r", "i", "o", "u", "s">>, <<"a", "n", "g", "r", "y">>>>,
    <<<<"t", "h", "r", "i", "l", "l", "e", "d">>, <<"e", "x", "c", "i", "t", "e", "d">>>>,
    <<<<"e", "n", "t", "h", "u", "s", "i", "a", "s", "t", "i", "c">>, <<"e", "x", "c", "i", "t", "e", "d">>>>,
    <<<<"s", "u", "r", "e">>, <<"c", "o", "n", "f", "i", "d", "e", "n", "t">>>>,
    <<<<"s", "e", "l", "f", "-", "a", "s", "s", "u", "r", "e", "d">>, <<"c", "o", "n", "f", "i", "d", "e", "n", "t">>>>,
    <<<<"s", "w", "a", "m", "p", "e", "d">>, <<"o", "v", "e", "r", "w", "h", "e", "l", "m", "e", "d">>>>,
    <<<<"i", "s", "o", "l", "a", "t", "e", "d">>, <<"l", "o", "n", "e", "l", "y">>>>,
    <<<<"a", "l", "o", "n", "e">>, <<"l", "o", "n", "e", "l", "y">>>>,
    <<<<"a", "n", "n", "o", "y", "e", "d">>, <<"f", "r", "u", "s", "t", "r", "a", "t", "e", "d">>>>,
    <<<<"i", "r", "r", "i", "t", "a", "t", "e", "d">>, <<"f", "r", "u", "s", "t", "r", "a", "t", "e", "d">>>>,
    <<<<"m", "o", "t", "i", "v", "a", "t", "e", "d">>, <<"i", "n", "s", "p", "i", "r", "e", "d">>>>,
    <<<<"u", "p", "l", "i", "f", "t", "e", "d">>, <<"i", "n", "s", "p", "i", "r", "e", "d">>>> }

\* lower-case names every object literal inherits from Object.prototype
InheritedLabels == { <<"c", "o", "n", "s", "t", "r", "u", "c", "t", "o", "r">>, <<"_", "_", "p", "r", "o", "t", "o", "_", "_">> }

NullValue == [tag |-> "null", value |-> <<>>]

StringValue(str) == [tag |-> "string", value |-> str]

\* moodMappings[mood]
MoodMappingsAt(mood) ==
  IF \E m \in MoodMappings : m[1] = mood
  THEN StringValue((CHOOSE m \in MoodMappings : m[1] = mood)[2])
  ELSE IF mood \in InheritedLabels THEN [tag |-> "object", value |-> <<>>]
  ELSE NullValue

\* mood.includes(validMood) || validMood.includes(mood)
PartialMatch(mood, validMood) == Includes(mood, validMood) \/ Includes(validMood, mood)

\* findClosestMood
FindClosestMood(mood, validMoods) ==
  IF mood = <<>> \/ Len(validMoods) = 0 THEN NullValue
  ELSE IF \E i \in DOMAIN validMoods : validMoods[i] = mood THEN StringValue(mood)
  ELSE IF \E i \in DOMAIN validMoods : PartialMatch(mood, validMoods[i])
  THEN StringValue(validMoods[CHOOSE i \in DOMAIN validMoods :
                                /\ PartialMatch(mood, validMoods[i])
                                /\ \A j \in 1..(i - 1) : ~PartialMatch(mood, validMoods[j])])
  ELSE MoodMappingsAt(mood)

\* the primaryMood validation of callOpenAIAPI
NormalizeMood(label) ==
  LET normalizedMood == Trim(ToLowerCase(label))
  IN IF \E i \in DOMAIN ValidMoods : ValidMoods[i] = normalizedMood
     THEN StringValue(normalizedMood)
     ELSE LET closest == FindClosestMood(normalizedMood, ValidMoods)
          IN IF closest = NullValue THEN StringValue(<<"c", "r", "e", "a", "t", "i", "v", "e">>) ELSE closest

\* the confidence check without its range test
ParseConfidenceUnchecked(c) == IF c.tag # "number" THEN 75 ELSE c.value

\* the confidence check of callOpenAIAPI; confidence in hundredths
ParseConfidence(c) ==
  IF c.tag # "number" \/ c.value < 0 \/ c.value > 100 THEN 75 ELSE c.value

\* primaryMood values a classifier response can carry
RawLabels ==
  { <<"h", "a", "p", "p", "y">>, <<"H", "a", "p", "p", "y">>,
    <<"S", "A", "D">>, <<"I", "n", "s", "p", "i", "r", "e", "d">>,
    <<" ", "c", "a", "l", "m", " ">>, <<"j", "o", "y", "f", "u", "l">>,
    <<"M", "a", "d">>,
    <<"s", "e", "l", "f", "-", "a", "s", "s", "u", "r", "e", "d">>,
    <<"S", "t", "r", "e", "s", "s", "e", "d">>,
    <<"b", "o", "r", "e", "d">>,
    <<"c", "o", "n", "f", "u", "s", "e", "d">>,
    <<"s", "a", "d", "n", "e", "s", "s">>,
    <<"u", "n", "h", "a", "p", "p", "y">>, <<"a">>,
    <<"c", "o", "n", "s", "t", "r", "u", "c", "t", "o", "r">>,
    <<"C", "o", "n", "s", "t", "r", "u", "c", "t", "o", "r">>, <<>>,
    <<" ", " ">> }

\* confidence values a classifier response can carry, numbers in hundredths
RawConfidences ==
  { [tag |-> "missing", value |-> 0], [tag |-> "null", value |-> 0],
    [tag |-> "string", value |-> 90] }
  \cup { [tag |-> "number", value |-> n] : n \in {-50, -1, 0, 37, 100, 101, 250} }

NoParse ==
  [op |-> "none", label |-> <<>>, confidence |-> [tag |-> "missing", value |-> 0],
   threw |-> FALSE, primaryMood |-> NullValue, outConfidence |-> 0]

\* callOpenAIAPI from JSON.parse to its return, for a response whose other
\* fields are well formed
ParseResponse(label, c) ==
  /\ parse' = [op |-> "parsed", label |-> label, confidence |-> c,
               threw |-> (label = <<>>),
               primaryMood |-> IF label = <<>> THEN NullValue ELSE NormalizeMood(label),
               outConfidence |-> IF label = <<>> THEN 0 ELSE ParseConfidence(c)]
  /\ UNCHANGED <<rlVars, amVars, lsm, advVars, svcVars>>

-----------------------------------------------------------------------------
(* MoodAdviceService. Names, categories and titles are sequences of
   characters; intensities and confidence are in hundredths and relevance
   scores in thousandths. *)

\* the lists of initializeAdviceDatabase in insertion order; every item's
\* category is the key of the list that holds it
AdviceDatabase ==
  << [category |-> <<"a", "n", "x", "i", "e", "t", "y">>,
      title |->
        <<"D", "e", "e", "p", " ", "B", "r", "e", "a", "t", "h", "i", "n",
          "g", " ", "E", "x", "e", "r", "c", "i", "s", "e">>,
      difficulty |-> "easy"],
     [category |-> <<"a", "n", "x", "i", "e", "t", "y">>,
      title |->
        <<"G", "r", "o", "u", "n", "d", "i", "n", "g", " ", "T", "e", "c",
          "h", "n", "i", "q", "u", "e", " ", "(", "5", "-", "4", "-", "3",
          "-", "2", "-", "1", ")">>,
      difficulty |-> "easy"],
     [category |-> <<"a", "n", "x", "i", "e", "t", "y">>,
      title |->
        <<"P", "r", "o", "g", "r", "e", "s", "s", "i", "v", "e", " ", "M",
          "u", "s", "c", "l", "e", " ", "R", "e", "l", "a", "x", "a", "t",
          "i", "o", "n">>,
      difficulty |-> "medium"],
     [category |-> <<"a", "n", "x", "i", "e", "t", "y">>,
      title |->
        <<"C", "a", "l", "m", "i", "n", "g", " ", "V", "i", "s", "u", "a",
          "l", "i", "z", "a", "t", "i", "o", "n">>,
      difficulty |-> "medium"],
     [category |-> <<"s", "a", "d", "n", "e", "s", "s">>,
      title |->
        <<"G", "e", "n", "t", "l", "e", " ", "M", "o", "v", "e", "m", "e",
          "n", "t">>,
      difficulty |-> "easy"],
     [category |-> <<"s", "a", "d", "n", "e", "s", "s">>,
      title |->
        <<"C", "r", "e", "a", "t", "i", "v", "e", " ", "E", "x", "p", "r",
          "e", "s", "s", "i", "o", "n">>,
      difficulty |-> "easy"],
     [category |-> <<"s", "a", "d", "n", "e", "s", "s">>,
      title |->
        <<"C", "o", "n", "n", "e", "c", "t", "i", "o", "n", " ", "a", "n",
          "d", " ", "S", "u", "p", "p", "o", "r", "t">>,
      difficulty |-> "medium"],
     [category |-> <<"s", "a", "d", "n", "e", "s", "s">>,
      title |->
        <<"S", "e", "l", "f", "-", "C", "o", "m", "p", "a", "s", "s", "i",
          "o", "n", " ", "P", "r", "a", "c", "t", "i", "c", "e">>,
      difficulty |-> "medium"],
     [category |-> <<"s", "t", "r", "e", "s", "s">>,
      title |->
        <<"Q", "u", "i", "c", "k", " ", "S", "t", "r", "e", "s", "s", " ",
          "R", "e", "s", "e", "t">>,
      difficulty |-> "easy"],
     [category |-> <<"s", "t", "r", "e", "s", "s">>,
      title |->
        <<"T", "i", "m", "e", " ", "M", "a", "n", "a", "g", "e", "m", "e",
          "n", "t", " ", "T", "e", "c", "h", "n", "i", "q", "u", "e">>,
      difficulty |-> "medium"],
     [category |-> <<"s", "t", "r", "e", "s", "s">>,
      title |->
        <<"M", "i", "n", "d", "f", "u", "l", " ", "S", "t", "r", "e", "s",
          "s", " ", "R", "e", "l", "e", "a", "s", "e">>,
      difficulty |-> "medium"],
     [category |-> <<"s", "t", "r", "e", "s", "s">>,
      title |->
        <<"P", "h", "y", "s", "i", "c", "a", "l", " ", "S", "t", "r", "e",
          "s", "s", " ", "R", "e", "l", "e", "a", "s", "e">>,
      difficulty |-> "easy"],
     [category |-> <<"h", "a", "p", "p", "i", "n", "e", "s", "s">>,
      title |->
        <<"G", "r", "a", "t", "i", "t", "u", "d", "e", " ", "A", "m", "p",
          "l", "i", "f", "i", "c", "a", "t", "i", "o", "n">>,
      difficulty |-> "easy"],
     [category |-> <<"h", "a", "p", "p", "i", "n", "e", "s", "s">>,
      title |->
        <<"J", "o", "y", " ", "S", "h", "a", "r", "i", "n", "g">>,
      difficulty |-> "easy"],
     [category |-> <<"h", "a", "p", "p", "i", "n", "e", "s", "s">>,
      title |->
        <<"S", "a", "v", "o", "r", "i", "n", "g", " ", "P", "r", "a", "c",
          "t", "i", "c", "e">>,
      difficulty |-> "easy"],
     [category |-> <<"h", "a", "p", "p", "i", "n", "e", "s", "s">>,
      title |->
        <<"E", "n", "e", "r", "g", "y", " ", "I", "n", "v", "e", "s", "t",
          "m", "e", "n", "t">>,
      difficulty |-> "medium"],
     [category |-> <<"m", "i", "x", "e", "d">>,
      title |->
        <<"E", "m", "o", "t", "i", "o", "n", "a", "l", " ", "C", "h", "e",
          "c", "k", "-", "I", "n">>,
      difficulty |-> "medium"],
     [category |-> <<"m", "i", "x", "e", "d">>,
      title |->
        <<"B", "a", "l", "a", "n", "c", "e", "d", " ", "R", "e", "s", "p",
          "o", "n", "s", "e">>,
      difficulty |-> "medium"],
     [category |-> <<"a", "n", "g", "e", "r">>,
      title |->
        <<"C", "o", "o", "l", "i", "n", "g", " ", "D", "o", "w", "n", " ",
          "T", "e", "c", "h", "n", "i", "q", "u", "e">>,
      difficulty |-> "easy"],
     [category |-> <<"f", "e", "a", "r">>,
      title |->
        <<"C", "o", "u", "r", "a", "g", "e", " ", "B", "u", "i", "l", "d",
          "i", "n", "g">>,
      difficulty |-> "medium"] >>

\* getAdviceByCategory
GetAdviceByCategory(category) ==
  LET normalizedCategory == ToLowerCase(category)
      Listed(item) == item.category = normalizedCategory
  IN SelectSeq(AdviceDatabase, Listed)

\* `${item.category}-${item.title}`
AdviceKey(item) == item.category \o <<"-">> \o item.title

RECURSIVE FilterSeen(_, _)
FilterSeen(advice, seen) ==
  IF advice = <<>> THEN <<>>
  ELSE LET key == AdviceKey(Head(advice))
       IN IF key \in seen
          THEN FilterSeen(Tail(advice), seen)
          ELSE <<Head(advice)>> \o FilterSeen(Tail(advice), seen \cup {key})

\* a filter that lets every item through
RemoveDuplicateAdviceNone(advice) == advice

\* removeDuplicateAdvice
RemoveDuplicateAdvice(advice) == FilterSeen(advice, {})

\* the emotion loop of calculateRelevanceScore
RECURSIVE EmotionBoost(_, _)
EmotionBoost(category, emotions) ==
  IF emotions = <<>> THEN 0
  ELSE (IF category = ToLowerCase(Head(emotions).name)
        THEN Head(emotions).intensity * 2 ELSE 0)
       + EmotionBoost(category, Tail(emotions))

\* userHistory.some(session => session.advice && session.advice.some(...))
HasUsedSimilar(category, userHistory) ==
  \E i \in DOMAIN userHistory :
    \E j \in DOMAIN userHistory[i].advice : userHistory[i].advice[j].category = category

\* calculateRelevanceScore
CalculateRelevanceScore(adviceItem, moodResult, userHistory) ==
  LET score ==
        500
        + (IF adviceItem.category = ToLowerCase(moodResult.primaryMood) THEN 300 ELSE 0)
        + EmotionBoost(adviceItem.category, moodResult.emotions)
        + (IF moodResult.confidence > 70 /\ adviceItem.difficulty = "easy" THEN 100
           ELSE IF moodResult.confidence < 50 /\ adviceItem.difficulty = "medium" THEN 100
           ELSE 0)
        + (IF Len(userHistory) > 0 /\ HasUsedSimilar(adviceItem.category, userHistory)
           THEN 150 ELSE 0)
  IN Min(score, 1000)

\* Array.prototype.sort with (a, b) => b.relevanceScore - a.relevanceScore:
\* descending and stable
\* an insertion that puts an item before the items of equal score
RECURSIVE InsertByScoreBeforeTies(_, _)
InsertByScoreBeforeTies(sorted, item) ==
  IF sorted = <<>> THEN <<item>>
  ELSE IF Head(sorted).relevanceScore > item.relevanceScore
  THEN <<Head(sorted)>> \o InsertByScoreBeforeTies(Tail(sorted), item)
  ELSE <<item>> \o sorted

RECURSIVE InsertByScore(_, _)
InsertByScore(sorted, item) ==
  IF sorted = <<>> THEN <<item>>
  ELSE IF Head(sorted).relevanceScore >= item.relevanceScore
  THEN <<Head(sorted)>> \o InsertByScore(Tail(sorted), item)
  ELSE <<item>> \o sorted

RECURSIVE SortByScore(_, _)
SortByScore(sorted, rest) ==
  IF rest = <<>> THEN sorted
  ELSE SortByScore(InsertByScore(sorted, Head(rest)), Tail(rest))

\* advice.map(item => ({...item, relevanceScore})) followed by the sort
ScoreAndSort(advice, moodResult, userHistory) ==
  SortByScore(<<>>,
    [i \in DOMAIN advice |->
       [category |-> advice[i].category, title |-> advice[i].title,
        difficulty |-> advice[i].difficulty,
        relevanceScore |-> CalculateRelevanceScore(advice[i], moodResult, userHistory)]])

\* slice(0, 6).map(item => adviceItem without relevanceScore)
TopSix(scored) ==
  [i \in 1..Min(6, Len(scored)) |->
     [category |-> scored[i].category, title |-> scored[i].title,
      difficulty |-> scored[i].difficulty]]

EasyOrImmediate(item) ==
  \/ item.difficulty = "easy"
  \/ item.category = <<"i", "m", "m", "e", "d", "i", "a", "t", "e", "_", "r", "e", "l", "i", "e", "f">>

\* personalizeAdvice without the high-confidence filter
PersonalizeAdviceUnfiltered(advice, moodResult, userHistory) ==
  TopSix(ScoreAndSort(advice, moodResult, userHistory))

\* personalizeAdvice
PersonalizeAdvice(advice, moodResult, userHistory) ==
  LET sorted == ScoreAndSort(advice, moodResult, userHistory)
  IN IF moodResult.confidence > 80
     THEN TopSix(SelectSeq(sorted, EasyOrImmediate))
     ELSE TopSix(sorted)

\* the secondary-emotion loop of getAdviceForMood
RECURSIVE SecondaryAdvice(_, _)
SecondaryAdvice(emotions, primaryMood) ==
  IF emotions = <<>> THEN <<>>
  ELSE (IF Head(emotions).intensity > 30 /\ Head(emotions).name # primaryMood
        THEN GetAdviceByCategory(ToLowerCase(Head(emotions).name))
        ELSE <<>>)
       \o SecondaryAdvice(Tail(emotions), primaryMood)

Digits == <<"0", "1", "2", "3", "4", "5", "6", "7", "8", "9">>

\* Number.prototype.toFixed(1) of an intensity in [0, 1] given in hundredths
ToFixed1(intensity) ==
  LET tenths == (intensity + 5) \div 10
  IN <<Digits[(tenths \div 10) + 1], ".", Digits[(tenths % 10) + 1]>>

\* emotions.map(e => `${e.name}:${e.intensity.toFixed(1)}`).join(',')
RECURSIVE EmotionString(_)
EmotionString(emotions) ==
  IF emotions = <<>> THEN <<>>
  ELSE LET piece == Head(emotions).name \o <<":">> \o ToFixed1(Head(emotions).intensity)
       IN IF Len(emotions) = 1 THEN piece
          ELSE piece \o <<",">> \o EmotionString(Tail(emotions))

\* the characters that replace(/[^a-zA-Z0-9:,-]/g, '') keeps
IdChar(c) ==
  \/ \E i \in DOMAIN LowerChars : LowerChars[i] = c
  \/ \E i \in DOMAIN UpperChars : UpperChars[i] = c
  \/ \E i \in DOMAIN Digits : Digits[i] = c
  \/ c \in {":", ",", "-"}

\* an id made of the emotions alone
GenerateCacheIdOfEmotions(moodResult) ==
  SelectSeq(EmotionString(moodResult.emotions), IdChar)

\* generateCacheId
GenerateCacheId(moodResult) ==
  SelectSeq(moodResult.primaryMood \o <<"-">> \o EmotionString(moodResult.emotions), IdChar)

\* getAdviceForMood up to the recommendation it builds
AdviceForMood(moodResult, userHistory) ==
  LET relevantAdvice ==
        GetAdviceByCategory(ToLowerCase(moodResult.primaryMood))
        \o SecondaryAdvice(moodResult.emotions, moodResult.primaryMood)
      uniqueAdvice == RemoveDuplicateAdvice(relevantAdvice)
  IN [relevantAdvice |-> relevantAdvice,
      uniqueAdvice |-> uniqueAdvice,
      advice |-> PersonalizeAdvice(uniqueAdvice, moodResult, userHistory),
      cacheId |-> GenerateCacheId(moodResult)]

\* entries.length > 50, slice(0, 50)
AdviceCacheLimit == 50

\* getCachedAdvice: the cache object as its entries in key order
GetCachedAdvice(item, rfail) ==
  IF rfail \/ item.tag # "json" THEN <<>> ELSE Parse(item)

\* cache[id] = entry: a key the object already has keeps its place
PutEntry(cache, entry) ==
  IF \E i \in DOMAIN cache : cache[i].cacheId = entry.cacheId
  THEN [i \in DOMAIN cache |->
          IF cache[i].cacheId = entry.cacheId THEN entry ELSE cache[i]]
  ELSE Append(cache, entry)

\* entries.sort((a, b) => b[1].cachedAt - a[1].cachedAt): descending, stable
RECURSIVE InsertByCachedAt(_, _)
InsertByCachedAt(sorted, entry) ==
  IF sorted = <<>> THEN <<entry>>
  ELSE IF Head(sorted).cachedAt >= entry.cachedAt
  THEN <<Head(sorted)>> \o InsertByCachedAt(Tail(sorted), entry)
  ELSE <<entry>> \o sorted

RECURSIVE SortByCachedAt(_, _)
SortByCachedAt(sorted, rest) ==
  IF rest = <<>> THEN sorted
  ELSE SortByCachedAt(InsertByCachedAt(sorted, Head(rest)), Tail(rest))

\* cacheAdvice: the entries of the cache object that are not written back,
\* and the item after setItem
CacheAdvice(item, cacheId, at, rfail, wfail) ==
  LET cache == PutEntry(GetCachedAdvice(item, rfail), [cacheId |-> cacheId, cachedAt |-> at])
      kept == IF Len(cache) > AdviceCacheLimit
              THEN SubSeq(SortByCachedAt(<<>>, cache), 1, AdviceCacheLimit)
              ELSE cache
      Dropped(e) == \A i \in DOMAIN kept : kept[i] # e
  IN [dropped |-> SelectSeq(cache, Dropped),
      stored |-> IF wfail THEN item ELSE Stringify(kept),
      failed |-> wfail]

\* clearCache: removeItem inside try/catch
ClearCache(item, wfail) == IF wfail THEN item ELSE NoItem

NoMoodResult == [primaryMood |-> <<>>, emotions |-> <<>>, confidence |-> 0]

NoAdv ==
  [op |-> "none", moodResult |-> NoMoodResult, userHistory |-> <<>>,
   relevantAdvice |-> <<>>, uniqueAdvice |-> <<>>, advice |-> <<>>, cacheId |-> <<>>]

NoCached == [op |-> "none", cacheId |-> <<>>, at |-> 0, dropped |-> <<>>, failed |-> FALSE]

NoCid == [op |-> "none", a |-> NoMoodResult, b |-> NoMoodResult, idA |-> <<>>, idB |-> <<>>]

AdvIdle ==
  /\ adv = NoAdv
  /\ adviceCache = NoItem
  /\ now = 1
  /\ cached = NoCached
  /\ cid = NoCid

\* this.cacheExpiry, in milliseconds
CacheExpiry == 24 * 60 * 60 * 1000

\* getCachedAdviceById that never looks at the age of the entry
GetCachedAdviceByIdAnyAge(item, cacheId, at, rfail) ==
  LET cache == GetCachedAdvice(item, rfail)
  IN [result |-> IF \E i \in DOMAIN cache : cache[i].cacheId = cacheId
                 THEN cache[CHOOSE i \in DOMAIN cache : cache[i].cacheId = cacheId]
                 ELSE Null,
      stored |-> item]

\* getCachedAdviceById: the value returned and the item it leaves
GetCachedAdviceById(item, cacheId, at, rfail) ==
  LET cache == GetCachedAdvice(item, rfail)
      held == \E i \in DOMAIN cache : cache[i].cacheId = cacheId
      entry == cache[CHOOSE i \in DOMAIN cache : cache[i].cacheId = cacheId]
  IN [result |-> IF held /\ at - entry.cachedAt < CacheExpiry THEN entry ELSE Null,
      stored |-> item]

NoGot == [op |-> "none", cacheId |-> <<>>, at |-> 0, before |-> NoItem,
          after |-> NoItem, failed |-> FALSE, result |-> Null]

SvcIdle ==
  /\ got = NoGot
  /\ loc = LocIdle
  /\ idb = IdbIdle
  /\ AuxIdle

\* a throwing getItem leaves cacheAdvice with the one new entry whatever the
\* item held; it is explored while the item holds at most one entry
CacheReadFaults ==
  IF faults < MaxFaults /\ Len(GetCachedAdvice(adviceCache, FALSE)) <= 1
  THEN BOOLEAN ELSE {FALSE}

\* getAdviceForMood(moodResult, userHistory), cacheAdvice included
GetAdviceForMood ==
  /\ adv.op = "input"
  /\ \E rfail \in CacheReadFaults, wfail \in WriteFaults :
       LET r == AdviceForMood(adv.moodResult, adv.userHistory)
           c == CacheAdvice(adviceCache, r.cacheId, now, rfail, wfail)
       IN /\ faults + B2N(rfail) + B2N(wfail) <= MaxFaults
          /\ faults' = faults + B2N(rfail) + B2N(wfail)
          /\ adv' = [adv EXCEPT !.op = "returned",
                                !.relevantAdvice = r.relevantAdvice,
                                !.uniqueAdvice = r.uniqueAdvice,
                                !.advice = r.advice,
                                !.cacheId = r.cacheId]
          /\ adviceCache' = c.stored
          /\ cached' = [op |-> "cacheAdvice", cacheId |-> r.cacheId, at |-> now,
                        dropped |-> c.dropped, failed |-> c.failed]
  /\ UNCHANGED <<quotas, initialized, stored, today, lastCall, streak, amVars,
                 lsm, parse, now, cid, svcVars>>

\* generateCacheId for each of two mood results
GenerateCacheIds ==
  /\ cid.op = "input"
  /\ cid' = [cid EXCEPT !.op = "generated",
                        !.idA = GenerateCacheId(cid.a),
                        !.idB = GenerateCacheId(cid.b)]
  /\ UNCHANGED <<rlVars, amVars, lsm, parse, adv, adviceCache, now, cached, svcVars>>

\* the k-th of a family of mood results with pairwise distinct cache ids
SampleMood(k) ==
  [primaryMood |-> ValidMoods[((k - 1) % Len(ValidMoods)) + 1],
   emotions |-> <<[name |-> <<"j", "o", "y">>, intensity |-> 10 * ((k - 1) \div Len(ValidMoods))]>>,
   confidence |-> 75]

\* the samples a caller passes next: the one numbered one more than the
\* entries the item holds, a new id until the cache overflows, and the first
CacheInputs ==
  {Len(GetCachedAdvice(adviceCache, FALSE)) + 1, 1} \cap 1..MaxSamples

\* cacheAdvice(recommendation) called on its own, for the k-th sample
CacheAdviceCall(k) ==
  /\ k \in CacheInputs
  /\ \E rfail \in CacheReadFaults, wfail \in WriteFaults :
       LET cacheId == GenerateCacheId(SampleMood(k))
           c == CacheAdvice(adviceCache, cacheId, now, rfail, wfail)
       IN /\ faults + B2N(rfail) + B2N(wfail) <= MaxFaults
          /\ faults' = faults + B2N(rfail) + B2N(wfail)
          /\ adviceCache' = c.stored
          /\ cached' = [op |-> "cacheAdvice", cacheId |-> cacheId, at |-> now,
                        dropped |-> c.dropped, failed |-> c.failed]
  /\ UNCHANGED <<quotas, initialized, stored, today, lastCall, streak, amVars,
                 lsm, parse, adv, now, cid, svcVars>>

\* clearCache()
ClearCacheCall ==
  /\ adviceCache # NoItem
  /\ \E wfail \in WriteFaults :
       /\ faults' = faults + B2N(wfail)
       /\ adviceCache' = ClearCache(adviceCache, wfail)
  /\ cached' = NoCached
  /\ UNCHANGED <<quotas, initialized, stored, today, lastCall, streak, amVars,
                 lsm, parse, adv, now, cid, svcVars>>

\* Date.now() moves on between two calls
AdvanceClock ==
  /\ now < MaxClock
  /\ now' = now + 1
  /\ UNCHANGED <<rlVars, amVars, lsm, parse, adv, adviceCache, cached, cid, svcVars>>

\* getCachedAdviceById(cacheId) for the id of the k-th sample
GetCachedAdviceByIdCall(k) ==
  /\ k \in 1..MaxSamples
  /\ \E rfail \in CacheReadFaults :
       LET cacheId == GenerateCacheId(SampleMood(k))
           r == GetCachedAdviceById(adviceCache, cacheId, now, rfail)
       IN /\ faults' = faults + B2N(rfail)
          /\ adviceCache' = r.stored
          /\ got' = [op |-> "getCachedAdviceById", cacheId |-> cacheId, at |-> now,
                     before |-> adviceCache, after |-> r.stored, failed |-> rfail,
                     result |-> r.result]
  /\ UNCHANGED <<quotas, initialized, stored, today, lastCall, streak, amVars,
                 lsm, parse, adv, now, cached, cid, loc, idb,
                 auxVars>>

\* the readings of Date.now() that are followed: those within a millisecond
\* of a whole number of days after the first one
ClockReadings ==
  { 1 + i * CacheExpiry + j : i \in 0..MaxSpan, j \in {-1, 0, 1} }

\* time passes: a millisecond, a day less a millisecond, or a day
Elapse(d) ==
  /\ d \in {1, CacheExpiry - 1, CacheExpiry}
  /\ now + d \in ClockReadings
  /\ now' = now + d
  /\ UNCHANGED <<rlVars, amVars, lsm, parse, adv, adviceCache, cached, cid, svcVars>>

-----------------------------------------------------------------------------
(* What an earlier run of the app can have left in localStorage *)

\* the services beside the limiter and the analysis flow are at rest
ExtIdle ==
  /\ lsm = LSIdle
  /\ parse = NoParse
  /\ AdvIdle
  /\ SvcIdle

StoredProfiles ==
  { [s \in Services |-> [used |-> RATE_LIMITS[s] - d, limit |-> RATE_LIMITS[s]]] : d \in 0..1 }

InitialStored ==
  {NoItem, CorruptItem} \cup
  { Stringify([tag |-> "rec", date |-> d, services |-> p]) : d \in 0..1, p \in StoredProfiles }

RLInit ==
  /\ AMIdle
  /\ ExtIdle
  /\ realMode = TRUE
  /\ sent = 0
  /\ quotas = Null
  /\ initialized = FALSE
  /\ stored \in InitialStored
  /\ today = 1
  /\ faults = 0
  /\ lastCall = NoCall
  /\ streak = -1

RLNext ==
  \/ InitializeCall
  \/ \E s \in ServiceNames : CheckQuota(s)
  \/ \E s \in ServiceNames : IncrementUsage(s)
  \/ \E s \in ServiceNames : GetRemainingQuota(s)
  \/ ForceReset
  \/ Tick
  \/ Restart

SpecRL == RLInit /\ [][RLNext]_vars

\* Everything but the named part of the state is at rest
Quiet ==
  /\ AMIdle
  /\ realMode = TRUE
  /\ sent = 0
  /\ quotas = Null
  /\ initialized = FALSE
  /\ stored = NoItem
  /\ today = 1
  /\ faults = 0
  /\ lastCall = NoCall
  /\ streak = -1

\* classifier responses validated one after another
ParseInit ==
  /\ Quiet
  /\ lsm = LSIdle
  /\ parse = NoParse
  /\ AdvIdle
  /\ SvcIdle

ParseNext == \E label \in RawLabels, c \in RawConfidences : ParseResponse(label, c)

SpecParse == ParseInit /\ [][ParseNext]_vars

\* getAdviceForMood: mood results and histories a caller can pass
AdvicePrimaryMoods ==
  { <<"a", "n", "x", "i", "e", "t", "y">>, <<"A", "n", "x", "i", "e", "t", "y">>, <<"s", "a", "d", "n", "e", "s", "s">>,
    <<"h", "a", "p", "p", "y">>, <<"m", "i", "x", "e", "d">>, <<"f", "e", "a", "r">> }

\* intensities in hundredths
AdviceEmotions ==
  { [name |-> <<"f", "e", "a", "r">>, intensity |-> 30],
    [name |-> <<"f", "e", "a", "r">>, intensity |-> 90],
    [name |-> <<"a", "n", "x", "i", "e", "t", "y">>, intensity |-> 34],
    [name |-> <<"A", "n", "x", "i", "e", "t", "y">>, intensity |-> 90],
    [name |-> <<"s", "t", "r", "e", "s", "s">>, intensity |-> 34],
    [name |-> <<"s", "t", "r", "e", "s", "s">>, intensity |-> 90] }

EmotionLists(emotions) ==
  UNION { [1..n -> emotions] : n \in 0..MaxEmotions }

AdviceMoodResults ==
  [primaryMood : AdvicePrimaryMoods,
   emotions : EmotionLists(AdviceEmotions),
   confidence : {30, 75, 90}]

\* no history, or one earlier session whose advice was about stress
AdviceHistories ==
  { <<>>, <<[advice |-> <<[category |-> <<"s", "t", "r", "e", "s", "s">>]>>]>> }

AdviceInit ==
  /\ Quiet
  /\ lsm = LSIdle
  /\ parse = NoParse
  /\ adviceCache = NoItem
  /\ now = 1
  /\ cached = NoCached
  /\ cid = NoCid
  /\ SvcIdle
  /\ \E m \in AdviceMoodResults, h \in AdviceHistories :
       adv = [NoAdv EXCEPT !.op = "input", !.moodResult = m, !.userHistory = h]

AdviceNext == GetAdviceForMood

\* personalizeAdvice applied to the de-duplicated candidates of a mood result
PersonalizeAdviceCall ==
  LET m == adv.moodResult
      u == RemoveDuplicateAdvice(GetAdviceByCategory(ToLowerCase(m.primaryMood))
                                 \o SecondaryAdvice(m.emotions, m.primaryMood))
  IN /\ adv.op = "input"
     /\ adv' = [adv EXCEPT !.op = "returned", !.uniqueAdvice = u,
                           !.advice = PersonalizeAdvice(u, m, adv.userHistory)]
     /\ UNCHANGED <<rlVars, amVars, lsm, parse, adviceCache, now, cached, cid, svcVars>>

PersonalizeNext == PersonalizeAdviceCall

SpecPersonalize == AdviceInit /\ [][PersonalizeNext]_vars

SpecAdvice == AdviceInit /\ [][AdviceNext]_vars

\* generateCacheId: primary moods are mood names; emotion names are free text
IdMoods == { <<"s", "a", "d">>, <<"S", "a", "d">>, <<"s", "a", "d", "n", "e", "s", "s">>, <<"c", "a", "l", "m">> }

IdEmotions ==
  { [name |-> <<"n", "e", "s", "s">>, intensity |-> 30],
    [name |-> <<"n", "e", "s", "s">>, intensity |-> 34],
    [name |-> <<"a", "-", "b", ",", " ", "c">>, intensity |-> 30],
    [name |-> <<"a", "-", "b", ",", " ", "c">>, intensity |-> 100] }

IdMoodResults ==
  [primaryMood : IdMoods, emotions : EmotionLists(IdEmotions), confidence : {30, 90}]

CacheIdInit ==
  /\ Quiet
  /\ lsm = LSIdle
  /\ parse = NoParse
  /\ adv = NoAdv
  /\ adviceCache = NoItem
  /\ now = 1
  /\ cached = NoCached
  /\ SvcIdle
  /\ \E a, b \in IdMoodResults : cid = [NoCid EXCEPT !.op = "input", !.a = a, !.b = b]

CacheIdNext == GenerateCacheIds

SpecCacheId == CacheIdInit /\ [][CacheIdNext]_vars

CacheInit ==
  /\ Quiet
  /\ lsm = LSIdle
  /\ parse = NoParse
  /\ adv = NoAdv
  /\ cid = NoCid
  /\ adviceCache \in {NoItem, CorruptItem}
  /\ now = 1
  /\ cached = NoCached
  /\ SvcIdle

CacheNext ==
  \/ \E k \in 1..MaxSamples : CacheAdviceCall(k)
  \/ ClearCacheCall
  \/ AdvanceClock

SpecCache == CacheInit /\ [][CacheNext]_vars

\* cached recommendations read back as they age
ExpiryInit == CacheInit

ExpiryNext ==
  \/ \E k \in 1..2 : CacheAdviceCall(k)
  \/ \E k \in 1..2 : GetCachedAdviceByIdCall(k)
  \/ \E d \in {1, CacheExpiry - 1, CacheExpiry} : Elapse(d)

SpecExpiry == ExpiryInit /\ [][ExpiryNext]_vars

\* searches with and without an API key, over any stored quota record
LocInit ==
  /\ AMIdle
  /\ lsm = LSIdle
  /\ parse = NoParse
  /\ AdvIdle
  /\ got = NoGot
  /\ idb = IdbIdle
  /\ AuxIdle
  /\ \E k \in BOOLEAN : loc = [LocIdle EXCEPT !.apiKey = k]
  /\ realMode = TRUE
  /\ sent = 0
  /\ quotas = Null
  /\ initialized = FALSE
  /\ stored \in InitialStored
  /\ today = 1
  /\ faults = 0
  /\ lastCall = NoCall
  /\ streak = -1

LocNext ==
  \/ \E k \in StoreKeys, r \in {"ok", "error"} : SearchNearbyBusinesses(k, r)
  \/ HourPasses
  \/ Restart

SpecLoc == LocInit /\ [][LocNext]_vars

\* the stores as earlier days of use left them: every store that is written
\* to holds records of the same ages
CleanInit ==
  /\ AMIdle
  /\ lsm = LSIdle
  /\ parse = NoParse
  /\ AdvIdle
  /\ got = NoGot
  /\ loc = LocIdle
  /\ AuxIdle
  /\ \E S \in SUBSET (0..MaxAge) :
       idb = [IdbIdle EXCEPT !.stores = [n \in STORES |->
                                IF n = "userPreferences" THEN {} ELSE S]]
  /\ realMode = TRUE
  /\ sent = 0
  /\ quotas = Null
  /\ initialized = FALSE
  /\ stored \in InitialStored
  /\ today = 1
  /\ faults = 0
  /\ lastCall = NoCall
  /\ streak = -1

CleanNext ==
  \/ \E d \in 1..MaxKeep : ClearOldData(d)
  \/ RecordsAge
  \/ Restart

SpecClean == CleanInit /\ [][CleanNext]_vars

\* a browser in some time zone, opened at some hour of a day
DayInit ==
  /\ AMIdle
  /\ lsm = LSIdle
  /\ parse = NoParse
  /\ AdvIdle
  /\ got = NoGot
  /\ loc = LocIdle
  /\ idb = IdbIdle
  /\ \E o \in -MaxOffset..MaxOffset, h \in 0..(HoursPerDay - 1) :
       tz = [TzIdle EXCEPT !.t = HoursPerDay + h, !.offset = o]
  /\ inc = IncIdle
  /\ Quiet

DayNext ==
  \/ InitializeAt
  \/ HourGoes

SpecDay == DayInit /\ [][DayNext]_vars

\* a fresh limiter over what an earlier run left in storage
RaceInit ==
  /\ AMIdle
  /\ ExtIdle
  /\ realMode = TRUE
  /\ sent = 0
  /\ quotas = Null
  /\ initialized = FALSE
  /\ stored \in InitialStored
  /\ today = 1
  /\ faults = 0
  /\ lastCall = NoCall
  /\ streak = -1

RaceNext ==
  \/ \E p \in Procs : IncrementUsageCalled(p)
  \/ \E p \in Procs : InitializeResumes(p)
  \/ \E p \in Procs : IncrementUsageResumes(p)
  \/ \E p \in Procs : IncrementUsageReturns(p)

SpecRace == RaceInit /\ [][RaceNext]_vars

\* LocalStorageManager calls over the limiter, one at a time
LSNext ==
  \/ \E k \in StoreKeys : SaveSession(k)
  \/ \E k \in StoreKeys : LoadSession(k)
  \/ \E i \in Images : SaveMoodEntryCall(i)
  \/ GetMoodHistory
  \/ \E k \in StoreKeys : SaveRecommendations(k)
  \/ \E k \in StoreKeys : GetRecommendations(k)
  \/ \E k \in StoreKeys : CacheImportantData(k)
  \/ Restart

SpecLS == RLInit /\ [][LSNext]_vars

\* requests already sent today, as far as the stored record tells
SentSoFar(st) ==
  IF st.tag = "json" /\ Parse(st).date = 1 THEN UsedOpenAI(Parse(st)) ELSE 0

Init ==
  /\ AMIdle
  /\ ExtIdle
  /\ realMode \in BOOLEAN
  /\ quotas = Null
  /\ initialized = FALSE
  /\ stored \in InitialStored
  /\ sent = SentSoFar(stored)
  /\ today = 1
  /\ faults = 0
  /\ lastCall = NoCall
  /\ streak = -1

\* overlapping calls are explored with two drawings and with a classifier
\* that answers either a valid analysis or a non-2xx status
OverlapInputs == { e \in ExportInputs : e.dataUrl \in { <<65>>, <<66, 65>> } }

OverlapResponses ==
  { r \in Responses : r.kind \in {"ok", "http"} /\ r.mood # "sad" /\ r.message = <<>> }

Next ==
  \/ \E p \in Procs, input \in OverlapInputs : Begin(p, input)
  \/ \E p \in Procs : Decide(p)
  \/ \E p \in Procs, resp \in OverlapResponses : Respond(p, resp)
  \/ \E p \in Procs : Count(p)
  \/ \E p \in Procs : Store(p)
  \/ \E i \in Images, ok \in BOOLEAN : SaveMoodToTiDB(i, ok)
  \/ \E p \in Procs : Return(p)
  \/ Tick

Spec == Init /\ [][Next]_vars

\* the same calls issued one after another: a call begins only when no
\* other call is in flight
BeginSeq(p, input) ==
  /\ \A q \in Procs : req[q].pc = "idle"
  /\ Begin(p, input)

SeqNext ==
  \/ \E p \in Procs, input \in ExportInputs : BeginSeq(p, input)
  \/ \E p \in Procs : Decide(p)
  \/ \E p \in Procs, resp \in Responses : Respond(p, resp)
  \/ \E p \in Procs : Count(p)
  \/ \E p \in Procs : Store(p)
  \/ \E i \in Images, ok \in BOOLEAN : SaveMoodToTiDB(i, ok)
  \/ \E p \in Procs : Return(p)
  \/ Tick

SpecSeq == Init /\ [][SeqNext]_vars

-----------------------------------------------------------------------------
(* RateLimiter properties, checked under SpecRL *)

AccessOps == {"checkQuota", "incrementUsage", "getRemainingQuota"}

\* C1: in every reachable state every known service has used <= limit and
\* getRemainingQuota(s) + used(s) = limit(s), also for the value a
\* getRemainingQuota call has just returned.
QuotaInvariant ==
  quotas.tag = "rec" =>
    \A s \in Services :
      /\ quotas.services[s].used <= quotas.services[s].limit
      /\ GetRemainingQuotaResult(quotas, s) + quotas.services[s].used
           = quotas.services[s].limit
      /\ (lastCall.op = "getRemainingQuota" /\ lastCall.service = s)
           => lastCall.remaining + quotas.services[s].used = quotas.services[s].limit

\* a getRemainingQuota('openai') call on an exhausted counter
QuotaInvariantWitness ==
  /\ quotas.tag = "rec"
  /\ lastCall.op = "getRemainingQuota"
  /\ lastCall.service = "openai"
  /\ lastCall.remaining = 0
  /\ quotas.services["openai"].used = RATE_LIMITS.openai

\* C2: incrementUsage(s) adds exactly 1 to used(s) and returns true when s
\* is a known service with used < limit; when used = limit or s is unknown
\* it returns false and changes no counter; from a fresh record the first
\* 50 consecutive incrementUsage('openai') calls return true, the 51st
\* returns false and checkQuota('openai') is then false.
IncrementContract ==
  lastCall.op = "incrementUsage" =>
    LET s == lastCall.service
        known == s \in Services
    IN /\ (known /\ lastCall.before[s] < quotas.services[s].limit)
            => /\ lastCall.ret
               /\ UsedOf(quotas) = [lastCall.before EXCEPT ![s] = @ + 1]
       /\ (~known \/ lastCall.before[s] = quotas.services[s].limit)
            => /\ ~lastCall.ret
               /\ UsedOf(quotas) = lastCall.before
       /\ streak \in 1..RATE_LIMITS.openai => lastCall.ret
       /\ streak = RATE_LIMITS.openai + 1
            => ~lastCall.ret /\ ~CheckQuotaResult(quotas, "openai")

\* C3: checkQuota(s) returns true iff s is a known service with
\* used < limit in the current record, false for every unknown name, and
\* changes no counter.
CheckQuotaContract ==
  lastCall.op = "checkQuota" =>
    /\ lastCall.ret =
         (/\ lastCall.service \in Services
          /\ lastCall.before[lastCall.service]
               < quotas.services[lastCall.service].limit)
    /\ UsedOf(quotas) = lastCall.before
    /\ ~lastCall.fresh => lastCall.before = lastCall.found

\* a checkQuota('openai') call that is refused on an exhausted counter, the
\* record being one the call found
CheckQuotaWitness ==
  /\ lastCall.op = "checkQuota"
  /\ lastCall.service = "openai"
  /\ ~lastCall.ret
  /\ ~lastCall.fresh
  /\ lastCall.before["openai"] = RATE_LIMITS.openai

\* C4: whenever checkQuota, incrementUsage or getRemainingQuota is called
\* on a day later than the record's date, the record is dated today and
\* every used is 0 before the result is computed.
DailyReset ==
  (lastCall.op \in AccessOps /\ lastCall.stale) =>
    /\ lastCall.date = lastCall.today
    /\ \A s \in Services : lastCall.before[s] = 0

\* C5: persistence failures never raise: after a throwing or corrupt read
\* the limiter is initialized with the default record, and after a
\* throwing write incrementUsage still returns true with the counter
\* incremented.
PersistenceFailuresContained ==
  /\ ~lastCall.raised
  /\ (lastCall.op # "none" /\ lastCall.load \in {"threw", "corrupt"})
       => /\ initialized
          /\ lastCall.date = lastCall.today
          /\ \A s \in Services : lastCall.before[s] = 0
  /\ (lastCall.op = "initialize" /\ lastCall.load \in {"threw", "corrupt"})
       => quotas = CreateDefaultQuotas(lastCall.today)
  /\ (/\ lastCall.op = "incrementUsage"
      /\ lastCall.saveFailed
      /\ lastCall.service \in Services
      /\ lastCall.before[lastCall.service] < RATE_LIMITS[lastCall.service])
       => /\ lastCall.ret
          /\ quotas.services[lastCall.service].used
               = lastCall.before[lastCall.service] + 1

\* an incrementUsage call that read corrupt JSON and whose write threw
PersistenceFailuresWitness ==
  /\ lastCall.op = "incrementUsage"
  /\ lastCall.load = "corrupt"
  /\ lastCall.saveFailed
  /\ lastCall.ret
  /\ quotas.services["openai"].used = 1

-----------------------------------------------------------------------------
(* analyzeMood properties *)

\* C6: analyzeMood rejects with 'Invalid drawing data provided' whenever
\* the export data is null or has no dataUrl, and sends no classifier
\* request.
InvalidInputRejected ==
  \A p \in Procs :
    (req[p].pc = "done" /\ IsInvalidInput(req[p].input)) =>
      /\ req[p].outcome.kind = "rejected"
      /\ req[p].outcome.error = InvalidInputError
      /\ req[p].sentBy = 0

\* C7: when checkQuota('openai') is false the call rejects with the
\* quota-exceeded error, sends no classifier request, returns no result
\* and leaves used('openai') as it was.
QuotaDenialPropagates ==
  \A p \in Procs :
    /\ req[p].pc \in {"waiting", "counting", "saving"} => req[p].can
    /\ (req[p].pc = "done" /\ ~req[p].can) =>
         /\ req[p].outcome.kind = "rejected"
         /\ req[p].outcome.error = QuotaError
         /\ req[p].outcome.result = NoResult
         /\ req[p].sentBy = 0
         /\ req[p].added = 0
         /\ UsedOpenAI(quotas) = req[p].used0

\* a call that was denied at an exhausted counter and has rejected
QuotaDenialWitness ==
  \E p \in Procs :
    /\ req[p].pc = "done"
    /\ ~req[p].can
    /\ req[p].used0 = RATE_LIMITS.openai
    /\ req[p].outcome.kind = "rejected"
    /\ ~IsInvalidInput(req[p].input)

\* C8: every failure inside analyzeMood other than the quota denial
\* resolves with the fallback result (calm, 0.5, isFallback) and never
\* rejects.
FailuresFallBack ==
  \A p \in Procs :
    (req[p].pc = "done" /\ req[p].cause \in {"invalid", "upstream"}) =>
      /\ req[p].outcome.kind = "resolved"
      /\ req[p].outcome.result.primaryMood = "calm"
      /\ req[p].outcome.result.confidence = 50
      /\ req[p].outcome.result.isFallback

\* what C9 asks of a later call for an already answered payload
ServedFromCache(p) ==
  /\ req[p].outcome = Resolved(req[p].prior)
  /\ req[p].sentBy = 0
  /\ req[p].added = 0
  /\ UsedOpenAI(quotas) = req[p].used0

\* C9 as stated: once a non-fallback result has been returned for a
\* payload, every later call with that payload returns it from the cache
\* without a classifier request, a usage change or a new cache entry,
\* whatever the quota state.
CachedWhateverTheQuota ==
  \A p \in Procs :
    (req[p].pc = "done" /\ req[p].prior # NoResult) => ServedFromCache(p)

\* C9 as amended: the later call is served from the cache when it finds
\* checkQuota('openai') true, and rejects with the quota-exceeded error,
\* again without request, usage change or cache entry, when it finds the
\* quota exhausted.
CachedWhenQuotaAllows ==
  \A p \in Procs :
    (req[p].pc = "done" /\ req[p].prior # NoResult) =>
      IF req[p].can
      THEN ServedFromCache(p)
      ELSE /\ req[p].outcome.kind = "rejected"
           /\ req[p].outcome.error = QuotaError
           /\ req[p].sentBy = 0
           /\ req[p].added = 0
           /\ UsedOpenAI(quotas) = req[p].used0

\* a repeated call that was answered with the earlier result
CachedWitness ==
  \E p \in Procs :
    /\ req[p].pc = "done"
    /\ req[p].prior # NoResult
    /\ req[p].can
    /\ req[p].outcome.kind = "resolved"
    /\ req[p].outcome.result = req[p].prior

\* C10: the number of classifier requests sent within one calendar day
\* never exceeds the openai daily limit.
DailyCapEnforced == sent <= RATE_LIMITS.openai

-----------------------------------------------------------------------------
(* analysis flow properties, checked under SpecSeq *)

\* C11: when analyzeMood has rejected with the quota-exceeded error, the
\* finished analysis flow reports the quota error to the user and presents
\* no mood analysis result for the drawing.
QuotaErrorSurfaced ==
  (~hook.isAnalyzing /\ Includes(hook.caught, <<"quota", "exceeded">>)) =>
    /\ hook.analysisResult = NoShown
    /\ hook.view = "alert"
    /\ Includes(hook.alert, <<"quota", "exceeded">>)

\* C12: an operation called while the database quota is exhausted does not
\* reject: a write resolves after degrading to the local-only cache and a
\* read resolves with local-cache data.
DatabaseQuotaDegrades ==
  (lsm.last.op \in WriteOps \cup ReadOps /\ lsm.last.exhausted) =>
    /\ lsm.last.outcome = "resolved"
    /\ lsm.last.from = "local"

\* C27: the remote save is best-effort and non-blocking: analyzeMood has
\* returned its non-fallback result for a drawing while the saveMood request
\* made for it is still pending, and when that request has failed.
RemoteSaveBestEffort ==
  \A i \in Images :
    remote[i].state \in {"pending", "failed"} =>
      /\ returned[i] # NoResult
      /\ ~returned[i].isFallback
      /\ returned[i].primaryMood = remote[i].mood
      /\ \A p \in Procs :
           (req[p].pc = "done" /\ req[p].input.dataUrl = i) =>
             (req[p].outcome.kind = "rejected" => ~req[p].can)

\* the caller has its result and is idle while the saveMood request made for
\* the drawing has failed
RemoteSaveFailedWitness ==
  \E i \in Images :
    /\ remote[i].state = "failed"
    /\ returned[i] # NoResult
    /\ remote[i].mood \notin tidb
    /\ \A p \in Procs : req[p].pc = "idle"
    /\ hook.analysisResult # NoShown

-----------------------------------------------------------------------------
(* response validation properties, checked under SpecParse *)

ValidMoodSet == { ValidMoods[i] : i \in DOMAIN ValidMoods }

\* C13: after a classifier response is parsed, primaryMood is one of the
\* 15 canonical moods: a canonical label in any letter case gives its
\* lowercase form, a label of the synonym table gives its table value, and
\* every other label gives 'creative'.
MoodNormalized ==
  (parse.op = "parsed" /\ ~parse.threw) =>
    LET lower == ToLowerCase(parse.label)
    IN /\ parse.primaryMood.tag = "string"
       /\ parse.primaryMood.value \in ValidMoodSet
       /\ lower \in ValidMoodSet => parse.primaryMood.value = lower
       /\ \A m \in MoodMappings : lower = m[1] => parse.primaryMood.value = m[2]
       /\ (lower \notin ValidMoodSet /\ \A m \in MoodMappings : lower # m[1])
            => parse.primaryMood.value = <<"c", "r", "e", "a", "t", "i", "v", "e">>

\* C14 as stated: the parsed confidence lies in [0,1]; a missing or
\* non-numeric confidence becomes 0.75, a number inside [0,1] is kept and a
\* number outside [0,1] is clamped to the nearer end of [0,1].
ConfidenceClamped ==
  (parse.op = "parsed" /\ ~parse.threw) =>
    LET c == parse.confidence
    IN /\ parse.outConfidence \in 0..100
       /\ c.tag # "number" => parse.outConfidence = 75
       /\ (c.tag = "number" /\ c.value \in 0..100) => parse.outConfidence = c.value
       /\ (c.tag = "number" /\ c.value < 0) => parse.outConfidence = 0
       /\ (c.tag = "number" /\ c.value > 100) => parse.outConfidence = 100

\* C14 as amended: a number outside [0,1] is replaced by the default 0.75,
\* like a missing or non-numeric confidence.
ConfidenceDefaulted ==
  (parse.op = "parsed" /\ ~parse.threw) =>
    LET c == parse.confidence
    IN /\ parse.outConfidence \in 0..100
       /\ c.tag # "number" => parse.outConfidence = 75
       /\ (c.tag = "number" /\ c.value \in 0..100) => parse.outConfidence = c.value
       /\ (c.tag = "number" /\ c.value \notin 0..100) => parse.outConfidence = 75

\* a response with confidence 2.5 has been validated
ConfidenceWitness ==
  /\ parse.op = "parsed"
  /\ ~parse.threw
  /\ parse.confidence = [tag |-> "number", value |-> 250]
  /\ parse.outConfidence = 75

\* C15: for every mood result and every history, the advice list that
\* getAdviceForMood returns has at least 1 and at most 6 items.
AdviceLengthInRange ==
  adv.op = "returned" => Len(adv.advice) \in 1..6

\* C16: removeDuplicateAdvice keeps exactly the first occurrence of every
\* (category, title) pair in the order the items came in, so the returned
\* advice list has no two items with the same (category, title), and no
\* returned item carries a relevanceScore field.
FirstOccurrencesKept ==
  adv.op = "returned" =>
    LET R == adv.relevantAdvice
        U == adv.uniqueAdvice
        A == adv.advice
        Pair(item) == <<item.category, item.title>>
        First == { i \in DOMAIN R : \A j \in 1..(i - 1) : Pair(R[j]) # Pair(R[i]) }
        Nth(k) == CHOOSE i \in First : Cardinality({ j \in First : j < i }) = k - 1
    IN /\ Len(U) = Cardinality(First)
       /\ \A k \in DOMAIN U : U[k] = R[Nth(k)]
       /\ \A i, j \in DOMAIN A : i # j => Pair(A[i]) # Pair(A[j])
       /\ \A i \in DOMAIN A : "relevanceScore" \notin DOMAIN A[i]

\* a call whose candidate list repeated an item and that returned advice
FirstOccurrencesWitness ==
  /\ adv.op = "returned"
  /\ Len(adv.uniqueAdvice) < Len(adv.relevantAdvice)
  /\ adv.advice # <<>>

\* C17: with confidence above 0.8 every returned item is easy or of category
\* immediate_relief, and at most 6 items are returned.
HighConfidenceEasyOnly ==
  (adv.op = "returned" /\ adv.moodResult.confidence > 80) =>
    /\ Len(adv.advice) <= 6
    /\ \A i \in DOMAIN adv.advice :
         \/ adv.advice[i].difficulty = "easy"
         \/ adv.advice[i].category = <<"i", "m", "m", "e", "d", "i", "a", "t", "e", "_", "r", "e", "l", "i", "e", "f">>

\* a confident call that had a medium item among its candidates and still
\* returned advice
HighConfidenceWitness ==
  /\ adv.op = "returned"
  /\ adv.moodResult.confidence > 80
  /\ adv.advice # <<>>
  /\ \E i \in DOMAIN adv.uniqueAdvice : adv.uniqueAdvice[i].difficulty = "medium"

\* C18: every emotion with intensity above 0.3 whose name differs from the
\* primary mood and whose category has catalog entries is represented by at
\* least one item of that category in the returned advice.
SecondaryEmotionsIncluded ==
  adv.op = "returned" =>
    \A k \in DOMAIN adv.moodResult.emotions :
      LET e == adv.moodResult.emotions[k]
      IN (/\ e.intensity > 30
          /\ e.name # adv.moodResult.primaryMood
          /\ GetAdviceByCategory(e.name) # <<>>)
         => \E i \in DOMAIN adv.advice : adv.advice[i].category = ToLowerCase(e.name)

\* C19: generateCacheId depends on primaryMood and emotions only, and two
\* mood results with different primaryMood values never get the same id,
\* whatever their emotions.
CacheIdSeparatesMoods ==
  cid.op = "generated" =>
    /\ (cid.a.primaryMood = cid.b.primaryMood /\ cid.a.emotions = cid.b.emotions)
         => cid.idA = cid.idB
    /\ cid.a.primaryMood # cid.b.primaryMood => cid.idA # cid.idB

\* ids generated for two moods of which one is a prefix of the other, the
\* shorter one followed by an emotion that spells the rest
CacheIdWitness ==
  /\ cid.op = "generated"
  /\ cid.a.primaryMood = <<"s", "a", "d">>
  /\ cid.b.primaryMood = <<"s", "a", "d", "n", "e", "s", "s">>
  /\ cid.a.emotions # <<>>
  /\ cid.a.emotions[1].name = <<"n", "e", "s", "s">>
  /\ cid.b.emotions = <<>>

\* C20: after any sequence of cacheAdvice calls the stored cache holds at
\* most 50 entries, they are the entries with the most recent cachedAt
\* values, and the recommendation just cached is among them.
CacheKeepsMostRecent ==
  (cached.op = "cacheAdvice" /\ ~cached.failed) =>
    LET kept == Parse(adviceCache)
    IN /\ Len(kept) <= 50
       /\ \A i \in DOMAIN cached.dropped : \A j \in DOMAIN kept :
            kept[j].cachedAt >= cached.dropped[i].cachedAt
       /\ \E j \in DOMAIN kept : kept[j].cacheId = cached.cacheId

\* C21: getCachedAdviceById(id) returns the cached recommendation exactly
\* when an entry with that id exists and was cached less than 24 hours ago,
\* and null otherwise; reading an expired entry leaves it in the store.
CachedAdviceReadWithinADay ==
  (got.op = "getCachedAdviceById" /\ ~got.failed) =>
    LET cache == IF got.before.tag = "json" THEN Parse(got.before) ELSE <<>>
        Fresh(e) == e.cacheId = got.cacheId /\ got.at - e.cachedAt < 24 * 60 * 60 * 1000
    IN /\ (\E i \in DOMAIN cache : Fresh(cache[i]))
            => \E i \in DOMAIN cache : Fresh(cache[i]) /\ got.result = cache[i]
       /\ (\A i \in DOMAIN cache : ~Fresh(cache[i])) => got.result = Null
       /\ got.after = got.before

\* an entry read back null exactly a day after it was cached, and still stored
CachedAdviceExpiredWitness ==
  /\ got.op = "getCachedAdviceById"
  /\ ~got.failed
  /\ got.result = Null
  /\ got.after.tag = "json"
  /\ \E i \in DOMAIN Parse(got.after) :
       /\ Parse(got.after)[i].cacheId = got.cacheId
       /\ got.at - Parse(got.after)[i].cachedAt = 24 * 60 * 60 * 1000

\* C22: when the googlePlaces quota is exhausted, searchNearbyBusinesses sends
\* no Places API request and returns cached or generic recommendations.
NoSearchWhenExhausted ==
  (loc.last.op = "searchNearbyBusinesses" /\ loc.last.exhausted) =>
    /\ loc.last.requests = 0
    /\ loc.last.outcome = "resolved"
    /\ loc.last.from \in {"memory", "storage", "generic"}

\* C23: without a Places API key searchNearbyBusinesses resolves with the
\* three generic recommendations, the first being 'Local Coffee Shop'.
GenericWithoutApiKey ==
  (loc.last.op = "searchNearbyBusinesses" /\ ~loc.last.hadKey) =>
    /\ loc.last.outcome = "resolved"
    /\ Len(loc.last.value) = 3
    /\ loc.last.value[1] = "Local Coffee Shop"

\* the score the statement gives an item (in thousandths); primary and
\* names are the mood and emotion names as they are compared with a category
StatedScore(item, primary, names) ==
  LET m == adv.moodResult
      boost[n \in 0..Len(names)] ==
        IF n = 0 THEN 0
        ELSE boost[n - 1] + (IF names[n] = item.category
                             THEN 2 * m.emotions[n].intensity ELSE 0)
      raw == 500
             + (IF primary = item.category THEN 300 ELSE 0)
             + boost[Len(names)]
             + (IF \/ item.difficulty = "easy" /\ m.confidence > 70
                   \/ item.difficulty = "medium" /\ m.confidence < 50
                THEN 100 ELSE 0)
             + (IF \E i \in DOMAIN adv.userHistory :
                     \E j \in DOMAIN adv.userHistory[i].advice :
                       adv.userHistory[i].advice[j].category = item.category
                THEN 150 ELSE 0)
  IN IF raw > 1000 THEN 1000 ELSE raw

\* the scores of the candidate list, names compared as Name gives them
StatedScores(Name(_)) ==
  LET m == adv.moodResult
      primary == Name(m.primaryMood)
      names == [n \in DOMAIN m.emotions |-> Name(m.emotions[n].name)]
  IN [i \in DOMAIN adv.uniqueAdvice |-> StatedScore(adv.uniqueAdvice[i], primary, names)]

\* the returned list is the first 6 of the candidates ranked by the stated
\* score, ties in input order, after the confidence > 0.8 filter
StatedRanking(Name(_)) ==
  LET U == adv.uniqueAdvice
      Cand == { i \in DOMAIN U :
                  adv.moodResult.confidence > 80 =>
                    \/ U[i].difficulty = "easy"
                    \/ U[i].category = <<"i", "m", "m", "e", "d", "i", "a", "t", "e", "_",
                                          "r", "e", "l", "i", "e", "f">> }
      score == StatedScores(Name)
      Before(j, i) == score[j] > score[i] \/ (score[j] = score[i] /\ j < i)
      pos == [i \in Cand |-> Cardinality({ j \in Cand : Before(j, i) }) + 1]
  IN /\ Len(adv.advice) = (IF Cardinality(Cand) > 6 THEN 6 ELSE Cardinality(Cand))
     /\ \A i \in Cand : pos[i] <= 6 => adv.advice[pos[i]] = U[i]

AsWritten(name) == name

\* C24 as stated: personalizeAdvice returns the first 6 items in the order
\* of non-increasing score, ties in input order, the score counting a mood or
\* an emotion whose name equals the item's category, after the filter that
\* applies when confidence > 0.8.
RankedByStatedScore ==
  adv.op = "returned" => StatedRanking(AsWritten)

\* C24 amended: the same, a name counting as equal to a category when it is
\* equal to it once lower-cased.
RankedByScoreIgnoringCase ==
  adv.op = "returned" => StatedRanking(ToLowerCase)

\* a call with a capitalised primary mood that ranked tied and untied items
\* and cut the list at 6
RankedWitness ==
  /\ adv.op = "returned"
  /\ adv.moodResult.primaryMood = <<"A", "n", "x", "i", "e", "t", "y">>
  /\ Len(adv.uniqueAdvice) > 6
  /\ Len(adv.advice) = 6
  /\ \E i, j \in DOMAIN adv.uniqueAdvice :
       i # j /\ StatedScores(ToLowerCase)[i] = StatedScores(ToLowerCase)[j]
  /\ \E i, j \in DOMAIN adv.uniqueAdvice :
       StatedScores(ToLowerCase)[i] # StatedScores(ToLowerCase)[j]

-----------------------------------------------------------------------------
(* cleanup properties, checked under SpecClean *)

\* the age in days past which clearOldData(daysToKeep) is to delete from a store
CutoffOf(n, daysToKeep) ==
  IF n \in {"sessions", "apiUsage"} THEN daysToKeep
  ELSE IF n = "moodHistory" THEN 3 * daysToKeep
  ELSE RecommendationDays

\* C25: after clearOldData(daysToKeep) has run with database quota
\* available, no cleaned store holds a record older than its cutoff, no record
\* newer than the cutoff was deleted, and the call completed without error.
CleanupRemovesOnlyOld ==
  (idb.last.op = "clearOldData" /\ idb.last.hadQuota) =>
    /\ idb.last.outcome = "completed"
    /\ \A n \in STORES \ {"userPreferences"} :
         idb.last.after[n] =
           { a \in idb.last.before[n] : a <= CutoffOf(n, idb.last.daysToKeep) }

-----------------------------------------------------------------------------
(* calendar-day properties, checked under SpecDay *)

\* C28: in every time zone the stored date equals getTodayString() exactly
\* until the stored resetTime: the quota day rolls over at local midnight.
DayEndsAtResetTime ==
  tz.record # NoRecord =>
    (tz.record.date = GetTodayString(tz.t) <=> tz.t < tz.record.resetTime)

-----------------------------------------------------------------------------
(* overlapping incrementUsage calls, checked under SpecRace *)

\* C29: whatever the order in which overlapping incrementUsage('openai')
\* calls resume at their awaits, first-time initialization included, used
\* never exceeds the limit, and once every call has returned used is the
\* count the limiter started the day with plus the calls that returned true.
NoIncrementLost ==
  /\ quotas.tag = "rec" => UsedOpenAI(quotas) <= RATE_LIMITS.openai
  /\ (inc.calls > 0 /\ \A p \in Procs : inc.pc[p] = "idle") =>
       /\ UsedOpenAI(quotas) = inc.base + inc.granted
       /\ inc.granted + inc.refused = inc.calls
       /\ stored = Stringify(quotas)
          \/ (inc.granted = 0 /\ stored \in {NoItem, CorruptItem})

\* two calls raced through the first initialization and every call made
\* returned true
NoIncrementLostWitness ==
  /\ inc.calls = MaxCalls
  /\ inc.granted = MaxCalls
  /\ inc.base = 0
  /\ \A p \in Procs : inc.pc[p] = "idle"
  /\ UsedOpenAI(quotas) = MaxCalls

====
